---- MODULE Spec2Model ----
(***************************************************************************)
(* The node registry (NodeRegistryServer) and its clients (NodeClient) of  *)
(* the XR teleoperation demo: node table, per-name id counters, outbound   *)
(* cache, liveness sweep, and the client's connection state machine.       *)
(*                                                                         *)
(* Time is discrete (one tick = one second of time.time()) and timestamps   *)
(* are kept relative to the present: now is 0, and Tick moves every stored *)
(* timestamp one second into the past. The code only ever compares         *)
(* now - t with expiry_time, so a timestamp more than expiry_time + 1 old  *)
(* is kept at that distance and the clock needs no horizon. The sweep's    *)
(* sleep of expiry_time * 1.1 is rounded up to whole seconds: as in the    *)
(* code, the time between two passes is longer than expiry_time.           *)
(* An HTTP exchange (requests.post with timeout, Flask handler under       *)
(* node_data_lock) is one step: the handler's critical section and the     *)
(* client's processing of the answer are not interleaved with other steps. *)
(* Strings are sequences of one-character strings, so that the f-string    *)
(* that builds a node id is computed, not assumed injective.               *)
(***************************************************************************)
EXTENDS Integers, Sequences, FiniteSets, TLC

VARIABLES
    sweepWake,            \* the time at which cleanup_task's sleep ends
    node_registry,        \* Dict[str, Node], in insertion order
    node_name_counters,   \* Dict[str, int]; 0 stands for "key absent"
    node_outbound_cache,  \* Dict[str, list]: node_id -> <<config, actions>>
    restarts,             \* how often the registry process was started anew
    clients,              \* the NodeClient objects
    lastDisc,             \* history: name -> id of the latest Disconnect not yet followed by a Connect of that name
    disconnected,         \* history: ids disconnected with no Connect or Heartbeat for them since
    resumed,              \* history: ids that sent a Heartbeat since they were last reported dead
    revived,              \* history: ids of `resumed` that the sweep pass of this second reported alive
    issued,               \* history: every <<name, counter>> pair an id was allocated from
    pushes,               \* history of the outbound cache: what add_outbound_messages was given, what a Heartbeat answered
    app,                  \* the application above a NodeClient: what its get_ calls returned
    snapshot,             \* the orchestrator's latest get_node_registry() result
    node_data_lock,       \* the thread that holds the registry's node_data_lock, or "free"
    pc,                   \* where each thread of the registry process is in its operation
    udp,                  \* a UDPRemoteConnector
    tcp,                  \* a JSONRemoteConnector, its socket and its peer
    discovery,            \* a RemoteDiscovery listener and a thread that calls get_remote
    remote_data,          \* NodeRegistryServer.remote_data
    comms                 \* a LocalCommsNode: what its upkeep thread keeps

vars == <<sweepWake, node_registry, node_name_counters, node_outbound_cache,
          restarts, clients, lastDisc, disconnected, resumed, revived, issued, pushes,
          app, snapshot, node_data_lock, pc, udp, tcp, discovery, remote_data, comms>>

registryVars == <<node_registry, node_name_counters, node_outbound_cache>>
histVars == <<lastDisc, disconnected, resumed, revived, issued, pushes>>
readerVars == <<app, snapshot>>
nodeVars == <<remote_data, comms>>
peerVars == <<tcp, discovery, nodeVars>>
procVars == <<node_data_lock, pc, udp, peerVars>>

----------------------------------------------------------------------------
(* Bounds of the model. *)

MaxNodes == 2
MaxRestarts == 1
MaxPushes == 2

(* Program constants. *)

ExpiryTime == 1
max_failures == 3

(* time.sleep(expiry_time * 1.1): the first whole tick at or after it. *)
SweepSleep == (ExpiryTime * 11 + 9) \div 10

(* time.time(), and the oldest timestamp the model tells apart. *)
now == 0
Oldest == now - (ExpiryTime + 1)
Aged(t) == IF t - 1 < Oldest THEN Oldest ELSE t - 1

(* Two NodeClient objects, and the node names in use: strings, one of which *)
(* reads like an id allocated for the other.                               *)
Clients == {1, 2}
NameA == <<"a">>
NameB == <<"a", "_", "1">>
Names == {NameA, NameB}

(* Python None for a string-valued field; also the falsy empty string. *)
NoId == <<>>
None == "None"

(* A config value handed to add_outbound_messages: None or a list. *)
PyNone == [t |-> "none", v |-> <<>>]
PyList(s) == [t |-> "list", v |-> s]
Configs == {PyNone, PyList(<<>>), PyList(<<1>>), PyList(<<2>>)}
ActionLists == {PyNone, PyList(<<>>), PyList(<<"A">>), PyList(<<"B">>)}
Truthy(x) == x.t = "list" /\ x.v # <<>>

Outcomes == {"ok", "late", "lost", "badstatus"}

----------------------------------------------------------------------------
(* str(int) and the f-string of _generate_node_id. *)

DigitChar(d) ==
    CASE d = 0 -> "0" [] d = 1 -> "1" [] d = 2 -> "2" [] d = 3 -> "3" [] d = 4 -> "4"
      [] d = 5 -> "5" [] d = 6 -> "6" [] d = 7 -> "7" [] d = 8 -> "8" [] d = 9 -> "9"

RECURSIVE Str(_)
Str(k) == IF k < 10 THEN <<DigitChar(k)>> ELSE Str(k \div 10) \o <<DigitChar(k % 10)>>

MkId(name, k) == name \o <<"_">> \o Str(k)

----------------------------------------------------------------------------
(* The node table. *)

LifeStatus(status, reason, last_seen) ==
    [status |-> status, reason |-> reason, last_seen |-> last_seen]

ChangeFlags == [config_schema |-> FALSE, command_schema |-> FALSE]

Node(node_name, node_id, message_time) ==
    [node_name |-> node_name, node_id |-> node_id,
     payload_queue |-> <<>>,
     config_schema |-> None, command_schema |-> None,
     change_flags |-> ChangeFlags,
     status_update |-> "absent",   \* change_flags.status_update: no attribute until it is assigned
     last_message_time |-> message_time,
     life_status |-> LifeStatus("alive", None, message_time)]

Ids(reg) == {reg[i].node_id : i \in 1..Len(reg)}

IndexOf(reg, id) == CHOOSE i \in 1..Len(reg) : reg[i].node_id = id

Lookup(reg, id) == reg[IndexOf(reg, id)]

(* dict[key] = value: an existing key keeps its place, a new one goes last. *)
Put(reg, node) ==
    IF node.node_id \in Ids(reg)
    THEN [i \in 1..Len(reg) |-> IF reg[i].node_id = node.node_id THEN node ELSE reg[i]]
    ELSE Append(reg, node)

(* A variant of DeadWithName that takes any dead node, whatever its name:  *)
(* C3's formula must tell it from the code's scan.                        *)
DeadWithAnyName(reg, name) ==
    {i \in 1..Len(reg) : reg[i].life_status.status = "dead"}

DeadWithName(reg, name) ==
    {i \in 1..Len(reg) : reg[i].node_name = name /\ reg[i].life_status.status = "dead"}

SetMin(S) == CHOOSE x \in S : \A y \in S : x <= y

(* A variant of _generate_node_id that computes the next counter without  *)
(* storing it: C2's formula must tell it from the code's.                 *)
generate_node_id_unstored(reg, counters, requested_name) ==
    IF DeadWithName(reg, requested_name) # {}
    THEN [node_id |-> reg[SetMin(DeadWithName(reg, requested_name))].node_id,
          counters |-> counters, fresh |-> FALSE]
    ELSE [node_id |-> MkId(requested_name, counters[requested_name] + 1),
          counters |-> counters, fresh |-> TRUE]

generate_node_id(reg, counters, requested_name) ==
    IF DeadWithName(reg, requested_name) # {}
    THEN [node_id |-> reg[SetMin(DeadWithName(reg, requested_name))].node_id,
          counters |-> counters, fresh |-> FALSE]
    ELSE [node_id |-> MkId(requested_name, counters[requested_name] + 1),
          counters |-> [counters EXCEPT ![requested_name] = @ + 1], fresh |-> TRUE]

(* connect_node, for a packet that carries node_name (NodeClient._connect's). *)
connect_node(reg, counters, requested_name, message_time) ==
    LET g == generate_node_id(reg, counters, requested_name)
    IN  [reg |-> Put(reg, Node(requested_name, g.node_id, message_time)),
         counters |-> g.counters,
         message_type |-> "success", node_id |-> g.node_id, fresh |-> g.fresh]

(* disconnect_node, for a packet that carries node_id. *)
disconnect_node(reg, node_id, message_time) ==
    IF node_id \notin Ids(reg)
    THEN [reg |-> reg, message_type |-> "error"]
    ELSE [reg |-> Put(reg, [Lookup(reg, node_id) EXCEPT
                      !.status_update = "true",
                      !.life_status = LifeStatus("dead", "disconnected", message_time)]),
          message_type |-> "success"]

(* A variant that answers with the cached config alone: C35's formula     *)
(* must tell it from the code's answer.                                    *)
drain_outbound_config_only(cache, node_id) ==
    IF node_id \in DOMAIN cache
    THEN [cache |-> [cache EXCEPT ![node_id] = <<cache[node_id][1], <<>>>>],
          has_update |-> TRUE,
          config_update |-> cache[node_id][1], actions |-> <<>>]
    ELSE [cache |-> cache, has_update |-> FALSE,
          config_update |-> PyList(<<>>), actions |-> <<>>]

(* The part of handle_heartbeat that answers from the outbound cache. *)
drain_outbound(cache, node_id) ==
    IF node_id \in DOMAIN cache
    THEN [cache |-> [cache EXCEPT ![node_id] = <<cache[node_id][1], <<>>>>],
          has_update |-> TRUE,
          config_update |-> cache[node_id][1], actions |-> cache[node_id][2]]
    ELSE [cache |-> cache, has_update |-> FALSE,
          config_update |-> PyList(<<>>), actions |-> <<>>]

(* handle_heartbeat, for a packet with node_id, node_name and timestamp. *)
handle_heartbeat(reg, cache, node_id, message_time) ==
    IF node_id \notin Ids(reg)
    THEN [reg |-> reg, cache |-> cache, message_type |-> "error",
          has_update |-> FALSE, config_update |-> PyList(<<>>), actions |-> <<>>]
    ELSE LET d == drain_outbound(cache, node_id)
         IN  [reg |-> Put(reg, [Lookup(reg, node_id) EXCEPT
                           !.last_message_time = message_time]),
              cache |-> d.cache, message_type |-> "heartbeat_response",
              has_update |-> d.has_update,
              config_update |-> d.config_update, actions |-> d.actions]

(* A request body (request.json): the keys it has and their values.       *)
Packet(keys, node_name, node_id, payload, config_schema, command_schema) ==
    [keys |-> keys, node_name |-> node_name, node_id |-> node_id, payload |-> payload,
     config_schema |-> config_schema, command_schema |-> command_schema]

(* `if 'payload' in data: ...`, `if 'config_schema' in data: ...`,         *)
(* `if 'command_schema' in data: ...` of connect_node and handle_heartbeat. *)
store_optional(node, data) ==
    [node EXCEPT
        !.payload_queue = IF "payload" \in data.keys THEN Append(@, data.payload) ELSE @,
        !.config_schema = IF "config_schema" \in data.keys THEN data.config_schema ELSE @,
        !.command_schema = IF "command_schema" \in data.keys THEN data.command_schema ELSE @,
        !.change_flags =
            [config_schema |-> @.config_schema \/ "config_schema" \in data.keys,
             command_schema |-> @.command_schema \/ "command_schema" \in data.keys]]

(* The /connect handler for any request body. *)
connect_packet(reg, counters, data, message_time) ==
    IF "node_name" \notin data.keys
    THEN [reg |-> reg, counters |-> counters,
          message_type |-> "error", node_id |-> NoId, fresh |-> FALSE]
    ELSE LET c == connect_node(reg, counters, data.node_name, message_time)
         IN  [c EXCEPT !.reg = Put(c.reg, store_optional(Lookup(c.reg, c.node_id), data))]

(* The /disconnect handler for any request body. *)
disconnect_packet(reg, data, message_time) ==
    IF "node_id" \notin data.keys
    THEN [reg |-> reg, message_type |-> "error"]
    ELSE disconnect_node(reg, data.node_id, message_time)

(* A variant of the /data handler that asks for node_id only: C15's       *)
(* formula must tell it from the code's validation.                        *)
heartbeat_packet_id_only(reg, cache, data, message_time) ==
    IF "node_id" \notin data.keys
    THEN [reg |-> reg, cache |-> cache, message_type |-> "error",
          has_update |-> FALSE, config_update |-> PyList(<<>>), actions |-> <<>>]
    ELSE LET h == handle_heartbeat(reg, cache, data.node_id, message_time)
         IN  IF h.message_type = "error" THEN h
             ELSE [h EXCEPT !.reg = Put(h.reg, store_optional(Lookup(h.reg, data.node_id), data))]

(* The /data handler for any request body. *)
heartbeat_packet(reg, cache, data, message_time) ==
    IF ~({"node_id", "node_name", "timestamp"} \subseteq data.keys)
    THEN [reg |-> reg, cache |-> cache, message_type |-> "error",
          has_update |-> FALSE, config_update |-> PyList(<<>>), actions |-> <<>>]
    ELSE LET h == handle_heartbeat(reg, cache, data.node_id, message_time)
         IN  IF h.message_type = "error" THEN h
             ELSE [h EXCEPT !.reg = Put(h.reg, store_optional(Lookup(h.reg, data.node_id), data))]

(* get_node_registry: the live table after its flags and queues are reset. *)
cleared_registry(reg) ==
    [i \in 1..Len(reg) |->
        [reg[i] EXCEPT !.change_flags = ChangeFlags, !.status_update = "false",
                       !.payload_queue = <<>>]]

(* A variant of get_node_registry that returns a shallow copy of the      *)
(* table, whose Node objects are the live ones: C17's formula must tell it *)
(* from the code's deepcopy.                                               *)
get_node_registry_shallow(reg) ==
    [data |-> [taken |-> TRUE, nodes |-> reg, shared |-> Ids(reg)],
     reg |-> cleared_registry(reg)]

(* get_node_registry: deepcopy gives a table that shares no Node object    *)
(* with the live one (`shared` is the set of ids whose Node it shares).    *)
get_node_registry(reg) ==
    [data |-> [taken |-> TRUE, nodes |-> reg, shared |-> {}],
     reg |-> cleared_registry(reg)]

(* A variant of the sweep that expires a node at now - t = expiry_time    *)
(* already: C5's formula must tell it from the code's comparison.         *)
sweep_node_at_expiry(node, t, expiry_time) ==
    IF t - node.last_message_time >= expiry_time
    THEN [node EXCEPT !.status_update = IF node.life_status.status # "dead" THEN "true" ELSE @,
                      !.life_status =
              LifeStatus("dead",
                         IF node.life_status.reason # None
                         THEN node.life_status.reason ELSE "timeout",
                         node.last_message_time)]
    ELSE [node EXCEPT !.status_update = IF node.life_status.status # "alive" THEN "true" ELSE @,
                      !.life_status = LifeStatus("alive", None, node.last_message_time)]

(* One node's turn in cleanup_task's loop over the table. *)
sweep_node(node, t, expiry_time) ==
    IF t - node.last_message_time > expiry_time
    THEN [node EXCEPT !.status_update = IF node.life_status.status # "dead" THEN "true" ELSE @,
                      !.life_status =
              LifeStatus("dead",
                         IF node.life_status.reason # None
                         THEN node.life_status.reason ELSE "timeout",
                         node.last_message_time)]
    ELSE [node EXCEPT !.status_update = IF node.life_status.status # "alive" THEN "true" ELSE @,
                      !.life_status = LifeStatus("alive", None, node.last_message_time)]

cleanup_pass(reg, t, expiry_time) ==
    [i \in 1..Len(reg) |-> sweep_node(reg[i], t, expiry_time)]

(* A variant of add_outbound_messages that puts new actions in front of   *)
(* the cached ones: C6's formula must tell it from the code's append.     *)
add_outbound_messages_prepend(cache, node_id, config, actions) ==
    LET old == IF node_id \in DOMAIN cache THEN cache[node_id]
               ELSE <<PyList(<<>>), <<>>>>
        entry == <<IF Truthy(config) THEN config ELSE old[1],
                   IF Truthy(actions) THEN actions.v \o old[2] ELSE old[2]>>
    IN  [id \in DOMAIN cache \cup {node_id} |->
            IF id = node_id THEN entry ELSE cache[id]]

(* A variant that stores every config that is not None, the empty list    *)
(* included: C7's formula must tell it from the code's `config or old`.   *)
add_outbound_messages_overwrite(cache, node_id, config, actions) ==
    LET old == IF node_id \in DOMAIN cache THEN cache[node_id]
               ELSE <<PyList(<<>>), <<>>>>
        entry == <<IF config # PyNone THEN config ELSE old[1],
                   IF Truthy(actions) THEN old[2] \o actions.v ELSE old[2]>>
    IN  [id \in DOMAIN cache \cup {node_id} |->
            IF id = node_id THEN entry ELSE cache[id]]

(* add_outbound_messages: `config or old`, `actions_list += actions or []`. *)
add_outbound_messages(cache, node_id, config, actions) ==
    LET old == IF node_id \in DOMAIN cache THEN cache[node_id]
               ELSE <<PyList(<<>>), <<>>>>
        entry == <<IF Truthy(config) THEN config ELSE old[1],
                   IF Truthy(actions) THEN old[2] \o actions.v ELSE old[2]>>
    IN  [id \in DOMAIN cache \cup {node_id} |->
            IF id = node_id THEN entry ELSE cache[id]]

----------------------------------------------------------------------------
(* NodeClient. *)

(* dict.update and dict.get. A dict is a function of its keys; <<>> is {}. *)
dict_update(d, other) ==
    [k \in DOMAIN d \cup DOMAIN other |-> IF k \in DOMAIN other THEN other[k] ELSE d[k]]

dict_get(d, k, default) == IF k \in DOMAIN d THEN d[k] ELSE default

(* The answer of /connect or /data with the key 'remote_ports' that the    *)
(* handler adds to a success when remote_data is not None.                 *)
with_remote(r, remote) ==
    IF remote.t = "none" \/ r.message_type = "error" THEN r
    ELSE [k \in DOMAIN r \cup {"remote_ports"} |->
             IF k = "remote_ports" THEN remote.v ELSE r[k]]

(* LocalCommsNode after __init__: what _upkeep_thread reads and keeps.     *)
LocalCommsNode(service_port, disconnect_on_empty) ==
    [service_port |-> service_port, disconnect_on_empty |-> disconnect_on_empty,
     current_remote_ip |-> None, current_remote_port |-> None,
     seen |-> <<>>,         \* history: what get_remote_discovery returned to the latest pass
     emptied |-> FALSE,     \* history: the latest pass took the disconnect_on_empty branch
     attempted |-> FALSE,   \* history: the latest pass called remote_client.reconnect
     unannounced |-> FALSE] \* history: the registry's remote_data was None at the latest pass

NodeClient(node_name) ==
    [node_name |-> node_name, node_id |-> NoId,
     config_schema |-> "[]", command_schema |-> "{}",
     connection_state |-> "disconnected", last_heartbeat_success |-> FALSE,
     running |-> FALSE,
     worker |-> FALSE,              \* heartbeat_thread is alive
     consecutive_failures |-> 0,    \* local to _heartbeat_worker
     action_list |-> <<>>, config_changes_list |-> <<>>,
     remote_discovery_cache |-> <<>>,   \* a dict: {} or the keys of the registry's remote_data
     inflight |-> [kind |-> "none"],    \* the request the heartbeat thread is waiting on
     stopped_id |-> NoId,               \* history: the node_id stop() found connected
     owner |-> "new"]               \* the owning node: start() not yet called, called, stop() called

(* _connect after the exchange: `answered` is a 200 answer that arrived. *)
connect_result(cl, answered, r) ==
    IF answered /\ r.message_type = "success"
    THEN [cl EXCEPT !.node_id = r.node_id, !.connection_state = "connected",
                    !.remote_discovery_cache =
                        IF "remote_ports" \in DOMAIN r THEN dict_update(@, r.remote_ports)
                        ELSE @]
    ELSE cl

connect_succeeded(answered, r) == answered /\ r.message_type = "success"

(* A variant of _connect's request body without the stored schemas: C14's *)
(* formula must tell it from the code's.                                   *)
connect_payload_name_only(cl) ==
    Packet({"node_name"}, cl.node_name, NoId, None, None, None)

(* The request bodies NodeClient builds in _connect and _send_heartbeat. *)
connect_payload(cl) ==
    Packet({"node_name", "config_schema", "command_schema"},
           cl.node_name, NoId, None, cl.config_schema, cl.command_schema)

heartbeat_payload(cl) ==
    Packet({"node_id", "node_name", "timestamp"}, cl.node_name, cl.node_id, None, None, None)

(* The request body of _send_schema_update: a Heartbeat with the schemas   *)
(* that update_schemas was given.                                          *)
schema_payload(cl, config_schema, command_schema) ==
    Packet({"node_id", "node_name", "timestamp"}
              \cup (IF config_schema # None THEN {"config_schema"} ELSE {})
              \cup (IF command_schema # None THEN {"command_schema"} ELSE {}),
           cl.node_name, cl.node_id, None, config_schema, command_schema)

(* update_schemas, before it sends anything. *)
store_schemas(cl, config_schema, command_schema) ==
    [cl EXCEPT
        !.config_schema = IF config_schema # None THEN config_schema ELSE @,
        !.command_schema = IF command_schema # None THEN command_schema ELSE @]

enter_reconnection_mode(cl) ==
    [cl EXCEPT !.connection_state = "reconnecting",
               !.last_heartbeat_success = FALSE,
               !.node_id = NoId]

exit_reconnection_mode(cl) == [cl EXCEPT !.connection_state = "connected"]

(* A variant of _send_heartbeat that never records a success: C32's       *)
(* formula must tell it from the code's.                                   *)
send_heartbeat_result_unrecorded(cl, outcome, r) ==
    CASE outcome = "ok" ->
            [cl EXCEPT
                !.action_list =
                    IF r.has_update /\ r.actions # <<>> THEN @ \o r.actions ELSE @,
                !.config_changes_list =
                    IF r.has_update /\ Truthy(r.config_update)
                    THEN r.config_update.v ELSE @,
                !.remote_discovery_cache =
                    IF "remote_ports" \in DOMAIN r THEN dict_update(@, r.remote_ports)
                    ELSE @]
      [] OTHER -> cl

(* A variant of _send_heartbeat that empties the discovery cache when the  *)
(* answer has no 'remote_ports': C40's formula must tell it from the       *)
(* code's.                                                                 *)
send_heartbeat_result_clearing(cl, outcome, r) ==
    CASE outcome = "ok" ->
            [cl EXCEPT
                !.action_list =
                    IF r.has_update /\ r.actions # <<>> THEN @ \o r.actions ELSE @,
                !.config_changes_list =
                    IF r.has_update /\ Truthy(r.config_update)
                    THEN r.config_update.v ELSE @,
                !.remote_discovery_cache =
                    IF "remote_ports" \in DOMAIN r THEN dict_update(@, r.remote_ports)
                    ELSE <<>>,
                !.last_heartbeat_success = TRUE]
      [] outcome = "badstatus" -> cl
      [] OTHER -> [cl EXCEPT !.last_heartbeat_success = FALSE]

(* _send_heartbeat once the exchange ended: "ok" is a 200 answer, "badstatus" *)
(* another status code, "lost" and "late" a RequestException.                *)
send_heartbeat_result(cl, outcome, r) ==
    CASE outcome = "ok" ->
            [cl EXCEPT
                !.action_list =
                    IF r.has_update /\ r.actions # <<>> THEN @ \o r.actions ELSE @,
                !.config_changes_list =
                    IF r.has_update /\ Truthy(r.config_update)
                    THEN r.config_update.v ELSE @,
                !.remote_discovery_cache =
                    IF "remote_ports" \in DOMAIN r THEN dict_update(@, r.remote_ports)
                    ELSE @,
                !.last_heartbeat_success = TRUE]
      [] outcome = "badstatus" -> cl
      [] OTHER -> [cl EXCEPT !.last_heartbeat_success = FALSE]

send_heartbeat_succeeded(outcome) == outcome = "ok"

(* A variant of the failure count that enters reconnection mode only      *)
(* after more than max_failures: C9's formula must tell it from the code. *)
count_heartbeat_late(cl, success) ==
    IF success
    THEN [cl EXCEPT !.consecutive_failures = 0]
    ELSE LET counted == [cl EXCEPT !.consecutive_failures = @ + 1]
         IN  IF counted.consecutive_failures > max_failures
             THEN enter_reconnection_mode(counted)
             ELSE counted

(* The body of _heartbeat_worker's heartbeat branch after _send_heartbeat. *)
count_heartbeat(cl, success) ==
    IF success
    THEN [cl EXCEPT !.consecutive_failures = 0]
    ELSE LET counted == [cl EXCEPT !.consecutive_failures = @ + 1]
         IN  IF counted.consecutive_failures >= max_failures
             THEN enter_reconnection_mode(counted)
             ELSE counted

----------------------------------------------------------------------------
----------------------------------------------------------------------------
(* UDPRemoteConnector: the fragment header and the fan-out of a packet. *)

HEADER_SIZE == 13
POINTCLOUD_HEADER_SIZE == 17

FRAME_TYPE_RGB == 0
FRAME_TYPE_DEPTH == 1
FRAME_TYPE_POINTCLOUD == 2

(* struct: the size of a field of format 'I', 'B' or 'H', and the largest  *)
(* number it takes; pack raises struct.error for a number out of range.    *)
FieldSize(code) == CASE code = "I" -> 4 [] code = "B" -> 1 [] code = "H" -> 2

(* A number for a 32-bit field is kept as its two 16-bit halves. *)
Halves(n) == <<n \div (2 ^ 16), n % (2 ^ 16)>>

Fits(code, value) ==
    CASE code = "B" -> value >= 0 /\ value < 2 ^ 8
      [] code = "H" -> value >= 0 /\ value < 2 ^ 16
      [] code = "I" -> \A h \in 1..2 : value[h] >= 0 /\ value[h] < 2 ^ 16

(* A variant without the mask. *)
NextFrameId_unmasked(frame_id) ==
    IF frame_id[2] + 1 < 2 ^ 16 THEN <<frame_id[1], frame_id[2] + 1>>
    ELSE <<frame_id[1] + 1, 0>>

(* (frame_id + 1) & 0xFFFFFFFF *)
NextFrameId(frame_id) ==
    IF frame_id[2] + 1 < 2 ^ 16 THEN <<frame_id[1], frame_id[2] + 1>>
    ELSE <<(frame_id[1] + 1) % (2 ^ 16), 0>>

RECURSIVE SumSizes(_)
SumSizes(format) ==
    IF format = <<>> THEN 0 ELSE FieldSize(Head(format)) + SumSizes(Tail(format))

(* The first field of both formats is the constant MAGIC, 0xDEADBEEF,     *)
(* which fits its 'I'; `values` are the fields after it.                   *)
MagicFormat == <<"I">>

pack(format, values) ==
    IF \E k \in 1..Len(format) : ~Fits(format[k], values[k])
    THEN [raised |-> TRUE, size |-> 0, values |-> <<>>]
    ELSE [raised |-> FALSE, size |-> SumSizes(MagicFormat \o format), values |-> values]

(* '>I B I H H' and '>I B I H H I', after the magic. *)
FrameFormat == <<"B", "I", "H", "H">>
PointcloudFormat == FrameFormat \o <<"I">>

(* Python's // and slicing of bytes, for a start that is not negative. *)
FloorDiv(a, b) == IF b > 0 THEN a \div b ELSE (0 - a) \div (0 - b)

PyMin(a, b) == IF a < b THEN a ELSE b

(* The encoded frame: its length; its bytes are told apart by their       *)
(* position.                                                               *)
Data(length) == [len |-> length]

Byte(k) == k % 256

(* The k-th byte of the data: the byte written by the encoder where the    *)
(* model has it, else the byte told by its position.                       *)
ByteAt(data, k) == IF "bytes" \in DOMAIN data THEN data.bytes[k] ELSE Byte(k)

BytesOf(data) == [k \in 1..data.len |-> ByteAt(data, k)]

PySlice(data, start, end) ==
    LET stop == IF end < 0 THEN (IF data.len + end < 0 THEN 0 ELSE data.len + end)
                ELSE PyMin(end, data.len)
    IN  IF start >= stop THEN <<>> ELSE [k \in 1..(stop - start) |-> ByteAt(data, start + k)]

(* The loop of _send_fragmented_frame / _send_fragmented_pointcloud from   *)
(* frag_seq on: the packets handed to _send_packet_to_destinations, until  *)
(* the range ends or struct.pack raises.                                   *)
RECURSIVE fragment_loop(_, _, _, _, _, _, _)
fragment_loop(data, payload_size, total_fragments, format, frame_type, frame_id, frag_seq) ==
    IF frag_seq >= total_fragments
    THEN [raised |-> "None", packets |-> <<>>]
    ELSE LET start_idx == frag_seq * payload_size
             end_idx == PyMin(start_idx + payload_size, data.len)
             payload == PySlice(data, start_idx, end_idx)
             fields == <<frame_type, frame_id, frag_seq, total_fragments>>
             header == pack(format, IF Len(format) > Len(fields)
                                    THEN fields \o <<Halves(data.len \div 9)>> ELSE fields)
         IN  IF header.raised
             THEN [raised |-> "struct.error", packets |-> <<>>]
             ELSE LET rest == fragment_loop(data, payload_size, total_fragments, format,
                                            frame_type, frame_id, frag_seq + 1)
                  IN  [raised |-> rest.raised,
                       packets |-> <<[frame_id |-> frame_id, frame_type |-> frame_type,
                                      frag_seq |-> frag_seq,
                                      total_fragments |-> total_fragments,
                                      header |-> header.values,
                                      payload |-> payload,
                                      size |-> header.size + Len(payload)]>> \o rest.packets]

(* A variant that cuts the payload one byte short of the budget but steps  *)
(* by the budget: C20's formula must tell it from the code's slices.       *)
send_fragmented_short(data, chunk_size, header_size, format, frame_type, frame_id) ==
    LET payload_size == chunk_size - header_size
    IN  IF payload_size = 0
        THEN [raised |-> "ZeroDivisionError", packets |-> <<>>]
        ELSE LET r == fragment_loop(data, payload_size,
                                    FloorDiv(data.len + payload_size - 1, payload_size),
                                    format, frame_type, frame_id, 0)
             IN  [r EXCEPT !.packets =
                     [k \in 1..Len(r.packets) |->
                         [r.packets[k] EXCEPT
                             !.payload = IF Len(@) > 1 THEN SubSeq(@, 1, Len(@) - 1) ELSE @]]]

(* _send_fragmented_frame (header_size 13) and _send_fragmented_pointcloud  *)
(* (header_size 17) of a connected connector.                              *)
send_fragmented(data, chunk_size, header_size, format, frame_type, frame_id) ==
    LET payload_size == chunk_size - header_size
    IN  IF payload_size = 0
        THEN [raised |-> "ZeroDivisionError", packets |-> <<>>]
        ELSE fragment_loop(data, payload_size,
                           FloorDiv(data.len + payload_size - 1, payload_size),
                           format, frame_type, frame_id, 0)

(* The destinations of a packet, in the order of the sendto calls. *)
Destinations(u) ==
    <<"remote">>
    \o (IF u.localhost_port # None THEN <<"localhost">> ELSE <<>>)
    \o u.extra_send_locations

(* The sendto calls of _send_packet_to_destinations inside its one try:    *)
(* the first call that raises ends them. `failing` are the destinations    *)
(* whose sendto raises.                                                    *)
RECURSIVE sendto_all(_, _)
sendto_all(dests, failing) ==
    IF dests = <<>> THEN <<>>
    ELSE IF Head(dests) \in failing
         THEN <<[dest |-> Head(dests), ok |-> FALSE]>>
         ELSE <<[dest |-> Head(dests), ok |-> TRUE]>> \o sendto_all(Tail(dests), failing)

send_packet_to_destinations(u, failing) ==
    IF u.connected THEN sendto_all(Destinations(u), failing) ELSE <<>>

(* The defaults of __init__, in seconds. *)
LOG_INTERVAL == 5
INTRINSICS_INTERVAL == 2

(* The object after __init__ with the default silent, log_interval and     *)
(* intrinsics_interval. The two timestamps are kept as the time since      *)
(* them, which counts up to the interval it is compared with:              *)
(* last_log_time starts as time.time(), last_intrinsics_time as 0.         *)
UDPRemoteConnector(chunk_size, localhost_port, extra_send_locations) ==
    [chunk_size |-> chunk_size, localhost_port |-> localhost_port,
     extra_send_locations |-> extra_send_locations,
     silent |-> FALSE,
     log_interval |-> LOG_INTERVAL, intrinsics_interval |-> INTRINSICS_INTERVAL,
     connected |-> FALSE,            \* _connected and socket is not None
     remote |-> None,                \* (remote_ip, remote_port)
     reconnecting |-> None,          \* the endpoint of a reconnect between its two calls
     sending |-> [active |-> FALSE], \* a send_depth_frame call in progress
     rgb_frame_id |-> Halves(0), pointcloud_frame_id |-> Halves(0),
     rgb_frame_count |-> 0, pointcloud_frame_count |-> 0,
     rgb_encode_times |-> <<>>,      \* one sample per frame: the number of the call that took it
     pointcloud_encode_times |-> <<>>,
     since_log |-> 0,                \* time.time() - last_log_time
     since_intrinsics |-> INTRINSICS_INTERVAL,   \* time.time() - last_intrinsics_time
     camera_intrinsics |-> None,
     calls |-> 0,                    \* send_*_frame calls so far
     frame |-> [sent |-> FALSE, encoded |-> FALSE, flushed |-> FALSE],
                                     \* the latest send_*_frame call and its packets
     attempts |-> <<>>,              \* the sendto calls made for each packet of it
     intrinsics |-> [count |-> 0,    \* history: intrinsics packets sent so far,
                     gap |-> 0,      \*   the time between the latest two,
                     during |-> "none",          \* the call that sent the latest,
                     since |-> INTRINSICS_INTERVAL,  \* the time since it (up to the interval),
                     attempts |-> <<>>],         \* and its sendto calls
     sent_ids |-> <<>>]              \* history: [kind, frame_id] of every frame with a packet

(* _maybe_send_intrinsics and _send_intrinsics during a call of `kind`. *)
maybe_send_intrinsics_unpaced(u, kind, failing) ==
    IF u.camera_intrinsics # None
    THEN [u EXCEPT
            !.since_intrinsics = 0,
            !.intrinsics = IF u.connected
                           THEN [count |-> @.count + 1, gap |-> @.since, during |-> kind,
                                 since |-> 0,
                                 attempts |-> send_packet_to_destinations(u, failing)]
                           ELSE @]
    ELSE u

maybe_send_intrinsics(u, kind, failing) ==
    IF u.camera_intrinsics # None /\ u.since_intrinsics >= u.intrinsics_interval
    THEN [u EXCEPT
            !.since_intrinsics = 0,
            !.intrinsics = IF u.connected
                           THEN [count |-> @.count + 1, gap |-> @.since, during |-> kind,
                                 since |-> 0,
                                 attempts |-> send_packet_to_destinations(u, failing)]
                           ELSE @]
    ELSE u

(* The counters under _stats_lock: send_rgb_frame lines 126-128,           *)
(* send_pointcloud_frame lines 174-176; send_depth_frame keeps none.       *)
count_frame(u, kind) ==
    CASE kind = "rgb" ->
            [u EXCEPT !.rgb_frame_count = @ + 1,
                      !.rgb_encode_times = Append(@, u.calls + 1)]
      [] kind = "pointcloud" ->
            [u EXCEPT !.pointcloud_frame_count = @ + 1,
                      !.pointcloud_encode_times = Append(@, u.calls + 1)]
      [] OTHER -> u

(* A variant that counts a frame before its encoding is known to have      *)
(* succeeded.                                                              *)
record_encode_always(u, kind, success) == count_frame(u, kind)

(* The frame is counted after imencode reported success. *)
record_encode(u, kind, success) == IF success THEN count_frame(u, kind) ELSE u

log_performance_stats(u) ==
    IF u.silent THEN u
    ELSE [u EXCEPT !.rgb_frame_count = 0, !.pointcloud_frame_count = 0,
                   !.rgb_encode_times = <<>>, !.pointcloud_encode_times = <<>>]

(* _maybe_log_stats, called by send_rgb_frame only. *)
maybe_log_stats(u) ==
    IF u.since_log >= u.log_interval
    THEN [log_performance_stats(u) EXCEPT !.since_log = 0]
    ELSE u

(* A variant in which depth frames take the RGB counter. *)
advance_frame_id_by_type(u, kind) ==
    IF kind = "pointcloud"
    THEN [u EXCEPT !.pointcloud_frame_id = NextFrameId(@)]
    ELSE [u EXCEPT !.rgb_frame_id = NextFrameId(@)]

(* Lines 133, 179 and 214. *)
advance_frame_id(u, kind) ==
    IF kind = "rgb"
    THEN [u EXCEPT !.rgb_frame_id = NextFrameId(@)]
    ELSE [u EXCEPT !.pointcloud_frame_id = NextFrameId(@)]

----------------------------------------------------------------------------
(* JSONRemoteConnector: the length-prefixed JSON stream over TCP. A byte   *)
(* is a number in 0..255; the messages are JSON numbers, which json.dumps  *)
(* writes as ASCII digits.                                                 *)

Ascii0 == 48

RECURSIVE json_dumps(_)
json_dumps(data) ==
    IF data < 10 THEN <<Ascii0 + data>>
    ELSE json_dumps(data \div 10) \o <<Ascii0 + (data % 10)>>

IsDigit(b) == b >= Ascii0 /\ b <= Ascii0 + 9

(* json.loads of the bytes of a JSON number: a JSONDecodeError for an      *)
(* empty text, a byte that is no digit, or a leading zero.                 *)
RECURSIVE DigitsValue(_)
DigitsValue(json_data) ==
    IF json_data = <<>> THEN 0
    ELSE 10 * DigitsValue(SubSeq(json_data, 1, Len(json_data) - 1))
         + (json_data[Len(json_data)] - Ascii0)

json_loads(json_data) ==
    IF \/ json_data = <<>>
       \/ \E k \in 1..Len(json_data) : ~IsDigit(json_data[k])
       \/ (Len(json_data) > 1 /\ json_data[1] = Ascii0)
    THEN [raised |-> TRUE, value |-> 0]
    ELSE [raised |-> FALSE, value |-> DigitsValue(json_data)]

(* n.to_bytes(4, 'big') and int.from_bytes(b, 'big') *)
to_bytes(n) ==
    <<(n \div 16777216) % 256, (n \div 65536) % 256, (n \div 256) % 256, n % 256>>

from_bytes(b) == ((b[1] * 256 + b[2]) * 256 + b[3]) * 256 + b[4]

(* The message the worker writes for one outgoing value (lines 89-91). *)
message(data) == to_bytes(Len(json_dumps(data))) \o json_dumps(data)

(* A variant of the extraction that takes one frame per receive. *)
extract_frames_once(recv_buffer, incoming_queue) ==
    IF Len(recv_buffer) >= 4 /\ Len(recv_buffer) >= 4 + from_bytes(SubSeq(recv_buffer, 1, 4))
    THEN LET msg_length == from_bytes(SubSeq(recv_buffer, 1, 4))
             parsed == json_loads(SubSeq(recv_buffer, 5, 4 + msg_length))
         IN  [raised |-> parsed.raised,
              recv_buffer |-> SubSeq(recv_buffer, 5 + msg_length, Len(recv_buffer)),
              incoming_queue |-> IF parsed.raised THEN incoming_queue
                                 ELSE Append(incoming_queue, parsed.value)]
    ELSE [raised |-> FALSE, recv_buffer |-> recv_buffer, incoming_queue |-> incoming_queue]

(* The loop at lines 102-117: while the buffer holds a length prefix and   *)
(* the declared payload, cut the frame off, parse it and queue it. A       *)
(* json.loads that raises leaves the loop with the frame already cut off.  *)
RECURSIVE extract_frames(_, _)
extract_frames(recv_buffer, incoming_queue) ==
    IF Len(recv_buffer) >= 4
    THEN LET msg_length == from_bytes(SubSeq(recv_buffer, 1, 4))
         IN  IF Len(recv_buffer) >= 4 + msg_length
             THEN LET json_data == SubSeq(recv_buffer, 5, 4 + msg_length)
                      rest == SubSeq(recv_buffer, 5 + msg_length, Len(recv_buffer))
                      parsed == json_loads(json_data)
                  IN  IF parsed.raised
                      THEN [raised |-> TRUE, recv_buffer |-> rest,
                            incoming_queue |-> incoming_queue]
                      ELSE extract_frames(rest, Append(incoming_queue, parsed.value))
             ELSE [raised |-> FALSE, recv_buffer |-> recv_buffer,
                   incoming_queue |-> incoming_queue]
    ELSE [raised |-> FALSE, recv_buffer |-> recv_buffer, incoming_queue |-> incoming_queue]

(* The object after __init__, with the worker's local recv_buffer, the     *)
(* socket's two directions, and what the callers saw.                      *)
JSONRemoteConnector(host, port) ==
    [host |-> host, port |-> port,
     connected |-> FALSE, running |-> FALSE,
     incoming_queue |-> <<>>,   \* parsed messages (SpecStream), or [from, data] (SpecTcp)
     outgoing_queue |-> <<>>,   \* [data, epoch]: the value and the reconnects called before its send_data
     worker_thread |-> "none",  \* "none", "alive" or "ended"
     recv_buffer |-> <<>>,
     wire_in |-> <<>>,          \* bytes the peer wrote that recv has not returned yet
     peer_sent |-> <<>>,        \* history: the messages the peer framed and wrote
     returned |-> <<>>,         \* history: everything get_received_data returned, in order
     wire_out |-> <<>>,         \* history: [to, data, epoch] for every sendall
     reconnects |-> 0,          \* calls of reconnect so far
     at |-> "idle",             \* where the thread in reconnect is
     send_data |-> [at |-> "idle", data |-> 0, epoch |-> 0],   \* a second thread in send_data
     latest |-> [after |-> 0, from |-> {}],  \* the latest get_received_data: reconnects returned before it, the sources of its messages
     accepting |-> FALSE,       \* the peer at the discovered address accepts a connection
     peer |-> "open",           \* the peer's end: "open", "closed" (FIN received), "reset" (RST received)
     dropped |-> 0,             \* history: send_data calls that queued nothing
     split |-> FALSE,           \* history: a recv ended inside a length prefix
     several |-> FALSE]         \* history: one recv completed more than one frame

----------------------------------------------------------------------------
(* RemoteDiscovery: the listener's single record of the latest             *)
(* announcement of its service.                                            *)

(* An announcement datagram after json.loads: the keys it has, and their   *)
(* values.                                                                 *)
Announcement(keys, service, ip, ports) ==
    [keys |-> keys, service |-> service, ip |-> ip, ports |-> ports]

(* A variant that takes the announcement of any service. *)
announcement_matches_any(announcement, service_name) == TRUE

(* announcement.get("service") == self.service_name *)
announcement_matches(announcement, service_name) ==
    "service" \in announcement.keys /\ announcement.service = service_name

(* Lines 35-36 raise KeyError for an announcement without "ip" or "ports". *)
announcement_raises(announcement) ==
    ~({"ip", "ports"} \subseteq announcement.keys)

(* None where an announcement, a record or a get_remote result is         *)
(* expected.                                                               *)
NoAnnouncement == Announcement({}, None, None, None)
NoService == [ip |-> None, ports |-> None, last_seen |-> 0]
NoRemote == [remote_ip |-> None, remote_ports |-> None]

(* The object after __init__ and start_discovery, and a second thread in   *)
(* get_remote.                                                             *)
RemoteDiscovery(service_name) ==
    [service_name |-> service_name,
     latest_service |-> NoService,   \* None or [ip, ports, last_seen]
     lock |-> "free",
     running |-> TRUE,
     worker |-> [at |-> "recvfrom", announcement |-> NoAnnouncement],
     reader |-> [at |-> "idle", ip |-> None],
     received |-> 0,                 \* datagrams so far; the clock of last_seen
     stored |-> NoAnnouncement,      \* history: the latest announcement written to the record
     got |-> [called |-> FALSE, remote |-> NoRemote]]   \* the latest get_remote result

----------------------------------------------------------------------------
(* The threads of the registry process: Flask's request threads, the       *)
(* cleanup thread, and the orchestrator's main loop.                       *)

Threads == {"flask_1", "flask_2", "cleanup", "main"}

NoData == Packet({}, NoId, NoId, None, None, None)

Idle == [op |-> "none", at |-> "idle", data |-> NoData, node_id |-> NoId, i |-> 0,
         begin |-> <<>>]

EmptyMap == [x \in {} |-> <<>>]

MapPut(f, k, val) == [x \in DOMAIN f \cup {k} |-> IF x = k THEN val ELSE f[x]]

MapGet(f, k, default) == IF k \in DOMAIN f THEN f[k] ELSE default

InitRegistry ==
    /\ sweepWake = now
    /\ node_registry = <<>>
    /\ node_name_counters = [n \in Names |-> 0]
    /\ node_outbound_cache = EmptyMap
    /\ restarts = 0
    /\ lastDisc = [n \in Names |-> NoId]
    /\ disconnected = {}
    /\ resumed = {}
    /\ revived = {}
    /\ issued = {}
    /\ pushes = [n |-> 0,              \* calls of add_outbound_messages so far
                 acts |-> EmptyMap,    \* id -> the actions given since the last drain, in call order
                 calls |-> EmptyMap,   \* id -> the number of calls since the last drain
                 cfg |-> EmptyMap,     \* id -> the config of the latest call that gave one (not None)
                 filled |-> EmptyMap,  \* id -> the config of the latest call that gave a non-empty one
                 got |-> EmptyMap,     \* id -> <<config_update, actions>> of the latest answer
                 prev |-> EmptyMap,    \* id -> the answer before the latest one
                 idle |-> EmptyMap,    \* id -> the latest answer followed a drain with no call in between
                 reused |-> EmptyMap,  \* id -> what was cached when a Connect reused the dead id, no Heartbeat answered since
                 first |-> EmptyMap]   \* id -> [cached, config_update, actions] of the first Heartbeat after such a Connect
    /\ app = [actions |-> <<>>,       \* what the latest get_pending_actions() returned
              config |-> <<>>,        \* what the latest get_config_changes() returned
              delivered |-> <<>>,     \* every action get_pending_actions() has returned, in order
              reads |-> 0,            \* calls of the two reads so far
              updates |-> 0,          \* calls of update_schemas so far
              outage |-> None,        \* the config schema set while not connected
              answer |-> None,        \* message_type of the latest answer to a raw request
              config_cache |-> <<>>,  \* LocalCommsNode.config_cache
              latest |-> [called |-> FALSE, changed |-> FALSE, config |-> <<>>],
                                      \* what the latest get_latest_config() returned
              previous |-> <<>>]      \* what the call before it returned
    /\ snapshot = [taken |-> FALSE, nodes |-> <<>>, shared |-> {}]
    /\ node_data_lock = "free"
    /\ pc = [t \in Threads |-> Idle]

(* The objects outside the registry and its clients, as constructed. *)
IdleUdp == udp = UDPRemoteConnector(1200, None, <<>>)
IdleTcp == tcp = JSONRemoteConnector(None, None)
IdleDiscovery == discovery = RemoteDiscovery("XR Quest")
IdleComms == remote_data = PyNone /\ comms = LocalCommsNode("echo", TRUE)

Init ==
    /\ InitRegistry
    /\ clients = [c \in Clients |-> NodeClient(IF c = 1 THEN NameA ELSE NameB)]
    /\ IdleUdp
    /\ IdleTcp
    /\ IdleDiscovery
    /\ IdleComms

(* Two clients, with the same node_name or with different ones. *)
InitClients ==
    /\ InitRegistry
    /\ \E n \in Names : clients = [c \in Clients |-> NodeClient(IF c = 1 THEN NameA ELSE n)]
    /\ IdleUdp
    /\ IdleTcp
    /\ IdleDiscovery
    /\ IdleComms

----------------------------------------------------------------------------
(* The registry answering one request, and its effect on table, counters   *)
(* and cache. "ok" and "late" exchanges reach the handler.                 *)

Served(outcome) == outcome \in {"ok", "late"}

(* The model keeps at most MaxNodes nodes in the table. *)
CanConnect(name) ==
    DeadWithName(node_registry, name) # {} \/ Len(node_registry) < MaxNodes

ConnectAnswer(name) ==
    with_remote(connect_node(node_registry, node_name_counters, name, now), remote_data)

DisconnectAnswer(id) == disconnect_node(node_registry, id, now)

HeartbeatAnswer(id) ==
    with_remote(handle_heartbeat(node_registry, node_outbound_cache, id, now), remote_data)

ConnectPacketAnswer(data) ==
    with_remote(connect_packet(node_registry, node_name_counters, data, now), remote_data)

DisconnectPacketAnswer(data) == disconnect_packet(node_registry, data, now)

HeartbeatPacketAnswer(data) ==
    with_remote(heartbeat_packet(node_registry, node_outbound_cache, data, now), remote_data)

ServeConnectPacket(data) ==
    /\ node_registry' = ConnectPacketAnswer(data).reg
    /\ node_name_counters' = ConnectPacketAnswer(data).counters
    /\ UNCHANGED node_outbound_cache

ServeDisconnectPacket(data) ==
    /\ node_registry' = DisconnectPacketAnswer(data).reg
    /\ UNCHANGED <<node_name_counters, node_outbound_cache>>

ServeHeartbeatPacket(data) ==
    /\ node_registry' = HeartbeatPacketAnswer(data).reg
    /\ node_outbound_cache' = HeartbeatPacketAnswer(data).cache
    /\ UNCHANGED node_name_counters

ServeConnect(name) ==
    /\ node_registry' = ConnectAnswer(name).reg
    /\ node_name_counters' = ConnectAnswer(name).counters
    /\ UNCHANGED node_outbound_cache

ServeDisconnect(id) ==
    /\ node_registry' = DisconnectAnswer(id).reg
    /\ UNCHANGED <<node_name_counters, node_outbound_cache>>

ServeHeartbeat(id) ==
    /\ node_registry' = HeartbeatAnswer(id).reg
    /\ node_outbound_cache' = HeartbeatAnswer(id).cache
    /\ UNCHANGED node_name_counters

----------------------------------------------------------------------------
(* NodeClient.start(), stop() and the heartbeat thread's loop. *)

(* A variant of start() that does not enter reconnection mode when its    *)
(* Connect fails: C11's formula must tell it from the code's.             *)
start_result_no_reconnect(cl, answered, r) ==
    LET conn == connect_result([cl EXCEPT !.running = TRUE], answered, r)
    IN  [conn EXCEPT !.worker = TRUE, !.consecutive_failures = 0, !.owner = "started"]

start_result(cl, answered, r) ==
    LET conn == connect_result([cl EXCEPT !.running = TRUE], answered, r)
        st == IF connect_succeeded(answered, r) THEN conn ELSE enter_reconnection_mode(conn)
    IN  [st EXCEPT !.worker = TRUE, !.consecutive_failures = 0, !.owner = "started"]

(* start(): every owner in the repository calls it once, on a new client. *)
Start(c, outcomes) ==
    /\ clients[c].owner = "new"
    /\ ~clients[c].running
    /\ \E o \in outcomes :
          /\ Served(o) => CanConnect(clients[c].node_name)
          /\ IF Served(o) THEN ServeConnectPacket(connect_payload(clients[c]))
             ELSE UNCHANGED registryVars
          /\ clients' = [clients EXCEPT ![c] =
                 start_result(@, o = "ok", ConnectPacketAnswer(connect_payload(clients[c])))]
    /\ UNCHANGED <<sweepWake, restarts, histVars, readerVars, procVars>>

(* _disconnect after the exchange: any 200 answer counts. *)
disconnect_result(cl, outcome) ==
    IF outcome = "ok" THEN [cl EXCEPT !.connection_state = "disconnected"] ELSE cl

(* stop(): the thread sees running = False and ends; then _disconnect. *)
Stop(c, outcomes) ==
    LET cl == [clients[c] EXCEPT !.running = FALSE, !.worker = FALSE, !.owner = "stopped"]
    IN  /\ clients[c].owner = "started"
        /\ clients[c].running
        /\ IF cl.connection_state = "connected" /\ cl.node_id # NoId
           THEN \E o \in outcomes :
                   /\ IF Served(o) THEN ServeDisconnect(cl.node_id)
                      ELSE UNCHANGED registryVars
                   /\ clients' = [clients EXCEPT ![c] = disconnect_result(cl, o)]
           ELSE /\ clients' = [clients EXCEPT ![c] = cl]
                /\ UNCHANGED registryVars
        /\ UNCHANGED <<sweepWake, restarts, histVars, readerVars, procVars>>

(* One pass of _heartbeat_worker's loop in normal heartbeat mode. *)
HeartbeatStep(c, outcomes) ==
    LET cl == clients[c]
    IN  /\ cl.running /\ cl.worker
        /\ cl.connection_state # "reconnecting"
        /\ IF cl.node_id = NoId
           THEN /\ clients' = [clients EXCEPT ![c] = count_heartbeat(cl, FALSE)]
                /\ UNCHANGED registryVars
           ELSE \E o \in outcomes :
                   /\ IF Served(o) THEN ServeHeartbeat(cl.node_id)
                      ELSE UNCHANGED registryVars
                   /\ clients' = [clients EXCEPT ![c] =
                         count_heartbeat(
                             send_heartbeat_result(cl, o, HeartbeatAnswer(cl.node_id)),
                             send_heartbeat_succeeded(o))]
        /\ UNCHANGED <<sweepWake, restarts, histVars, readerVars, procVars>>

(* A variant of the reconnection branch that keeps the failure count:     *)
(* C10's formula must tell it from the code's reset.                      *)
reconnect_result_keep_count(cl, answered, r) ==
    IF connect_succeeded(answered, r)
    THEN exit_reconnection_mode(connect_result(cl, answered, r))
    ELSE connect_result(cl, answered, r)

reconnect_result(cl, answered, r) ==
    IF connect_succeeded(answered, r)
    THEN [exit_reconnection_mode(connect_result(cl, answered, r))
             EXCEPT !.consecutive_failures = 0]
    ELSE connect_result(cl, answered, r)

(* One pass of _heartbeat_worker's loop in reconnection mode. *)
ReconnectStep(c, outcomes) ==
    LET cl == clients[c]
    IN  /\ cl.running /\ cl.worker
        /\ cl.connection_state = "reconnecting"
        /\ \E o \in outcomes :
              /\ Served(o) => CanConnect(cl.node_name)
              /\ IF Served(o) THEN ServeConnectPacket(connect_payload(cl))
                 ELSE UNCHANGED registryVars
              /\ clients' = [clients EXCEPT ![c] =
                     reconnect_result(cl, o = "ok", ConnectPacketAnswer(connect_payload(cl)))]
        /\ UNCHANGED <<sweepWake, restarts, histVars, readerVars, procVars>>

----------------------------------------------------------------------------
(* Requests of any other sender (the test controller's MockNode, a raw     *)
(* requests.post): well-formed packets for any name, any id of the table   *)
(* and one id that is never in it.                                         *)

UnknownId == MkId(NameA, MaxNodes + 1)

RequestIds == Ids(node_registry) \cup {UnknownId}

ConnectCall(name) ==
    /\ CanConnect(name)
    /\ ServeConnect(name)
    /\ lastDisc' = [lastDisc EXCEPT ![name] = NoId]
    /\ disconnected' = disconnected \ {ConnectAnswer(name).node_id}
    /\ resumed' = resumed \ {ConnectAnswer(name).node_id}
    /\ revived' = revived \ {ConnectAnswer(name).node_id}
    /\ issued' = IF ConnectAnswer(name).fresh
                 THEN issued \cup {<<name, node_name_counters'[name]>>} ELSE issued
    /\ UNCHANGED <<sweepWake, restarts, clients, readerVars, procVars>>

Connect(name) == ConnectCall(name) /\ UNCHANGED pushes

Disconnect(id) ==
    LET ok == DisconnectAnswer(id).message_type = "success"
    IN  /\ ServeDisconnect(id)
        /\ lastDisc' = IF ok
                       THEN [lastDisc EXCEPT ![Lookup(node_registry, id).node_name] = id]
                       ELSE lastDisc
        /\ disconnected' = IF ok THEN disconnected \cup {id} ELSE disconnected
        /\ resumed' = IF ok THEN resumed \ {id} ELSE resumed
        /\ revived' = IF ok THEN revived \ {id} ELSE revived
        /\ UNCHANGED <<sweepWake, restarts, clients, issued, pushes, readerVars, procVars>>

(* The history of the outbound cache after the Heartbeat's answer. *)
HeartbeatPushes(id) ==
    LET r == HeartbeatAnswer(id)
    IN  IF r.has_update
        THEN [pushes EXCEPT !.acts = MapPut(@, id, <<>>),
                            !.calls = MapPut(@, id, 0),
                            !.got = MapPut(@, id, <<r.config_update, r.actions>>),
                            !.prev = MapPut(@, id, MapGet(pushes.got, id, <<>>)),
                            !.idle = MapPut(@, id, MapGet(pushes.calls, id, 1) = 0)]
        ELSE pushes

HeartbeatCall(id) ==
    LET r == HeartbeatAnswer(id)
        ok == r.message_type = "heartbeat_response"
    IN  /\ ServeHeartbeat(id)
        /\ lastDisc' = IF ok
                       THEN [n \in Names |-> IF lastDisc[n] = id THEN NoId ELSE lastDisc[n]]
                       ELSE lastDisc
        /\ disconnected' = IF ok THEN disconnected \ {id} ELSE disconnected
        /\ resumed' = IF ok /\ Lookup(node_registry, id).life_status.status = "dead"
                      THEN resumed \cup {id} ELSE resumed
        /\ UNCHANGED <<sweepWake, restarts, clients, revived, issued, readerVars, procVars>>

Heartbeat(id) == HeartbeatCall(id) /\ pushes' = HeartbeatPushes(id)

----------------------------------------------------------------------------
(* The registry's own steps. *)

(* One pass of cleanup_task, then its sleep. *)
Sweep ==
    /\ now >= sweepWake
    /\ node_registry' = cleanup_pass(node_registry, now, ExpiryTime)
    /\ sweepWake' = now + SweepSleep
    /\ resumed' = {id \in resumed : Lookup(node_registry', id).life_status.status = "dead"}
    /\ revived' = resumed \ resumed'
    /\ UNCHANGED <<node_name_counters, node_outbound_cache, restarts, clients,
                   lastDisc, disconnected, issued, pushes, readerVars, procVars>>

(* A second passes: every stored timestamp is one second further back,    *)
(* in the table and in the snapshot the orchestrator holds.               *)
(* cleanup_task wakes in the second its sleep ends, so no second passes    *)
(* while a pass is due.                                                    *)
AgedTable(reg) ==
    [i \in 1..Len(reg) |->
        [reg[i] EXCEPT !.last_message_time = Aged(@), !.life_status.last_seen = Aged(@)]]

Tick ==
    /\ sweepWake > now
    /\ node_registry' = AgedTable(node_registry)
    /\ snapshot' = [snapshot EXCEPT !.nodes = AgedTable(@)]
    /\ sweepWake' = sweepWake - 1
    /\ revived' = {}
    /\ UNCHANGED <<node_name_counters, node_outbound_cache, restarts, clients,
                   lastDisc, disconnected, resumed, issued, pushes, app, procVars>>

(* The registry process ends and a new one is constructed: __init__. *)
Restart ==
    /\ restarts < MaxRestarts
    /\ restarts' = restarts + 1
    /\ node_registry' = <<>>
    /\ node_name_counters' = [n \in Names |-> 0]
    /\ node_outbound_cache' = EmptyMap
    /\ sweepWake' = now
    /\ UNCHANGED <<clients, histVars, readerVars, procVars>>

(* The orchestrator's add_outbound_messages(node_id, config, actions), for *)
(* a node of the table. The history keeps what the calls were given.       *)
AddOutboundCall(id, config, actions) ==
    /\ pushes.n < MaxPushes
    /\ node_outbound_cache' = add_outbound_messages(node_outbound_cache, id, config, actions)
    /\ pushes' = [pushes EXCEPT
          !.n = @ + 1,
          !.acts = MapPut(@, id, MapGet(@, id, <<>>) \o actions.v),
          !.calls = MapPut(@, id, MapGet(@, id, 0) + 1),
          !.cfg = MapPut(@, id, IF config # PyNone THEN config ELSE MapGet(@, id, PyNone)),
          !.filled = MapPut(@, id, IF config.v # <<>> THEN config ELSE MapGet(@, id, PyNone))]
    /\ UNCHANGED <<sweepWake, node_registry, node_name_counters, restarts, clients,
                   lastDisc, disconnected, resumed, revived, issued, readerVars, procVars>>

AddOutbound ==
    \E id \in Ids(node_registry), config \in Configs, actions \in ActionLists :
        AddOutboundCall(id, config, actions)

----------------------------------------------------------------------------
(* The registry under the requests of arbitrary senders. *)

Next ==
    \/ \E n \in Names : Connect(n)
    \/ \E id \in RequestIds : Disconnect(id)
    \/ \E id \in RequestIds : Heartbeat(id)
    \/ Sweep
    \/ Tick

Spec == Init /\ [][Next]_vars

(* The registry, senders of one name and the orchestrator's outbound      *)
(* messages: the cache is keyed by node_id and never reads a name.        *)

NextOutbound ==
    \/ Connect(NameA)
    \/ \E id \in RequestIds : Heartbeat(id)
    \/ AddOutbound

SpecOutbound == Init /\ [][NextOutbound]_vars

(* The registry with one NodeClient; the registry process may be restarted. *)

NextClient ==
    \/ Start(1, Outcomes)
    \/ Stop(1, Outcomes)
    \/ HeartbeatStep(1, Outcomes)
    \/ ReconnectStep(1, Outcomes)
    \/ Sweep
    \/ Tick
    \/ Restart

SpecClient == Init /\ [][NextClient]_vars

(* The registry with two NodeClients; every exchange is answered or lost. *)

TwoOutcomes == {"ok", "lost"}

NextClients ==
    \/ \E c \in Clients : Start(c, TwoOutcomes)
    \/ \E c \in Clients : Stop(c, TwoOutcomes)
    \/ \E c \in Clients : HeartbeatStep(c, TwoOutcomes)
    \/ \E c \in Clients : ReconnectStep(c, TwoOutcomes)
    \/ Sweep
    \/ Tick

SpecClients == InitClients /\ [][NextClients]_vars

----------------------------------------------------------------------------
(* Properties of the registry under arbitrary senders (Spec).              *)

StatusOf(reg, id) == Lookup(reg, id).life_status

(* C1: after a successful Disconnect of id X registered under name N, the  *)
(* next Connect with node_name N returns X, whatever sweep passes ran in   *)
(* between (lastDisc[N] is X from the Disconnect until a Connect of N or a *)
(* Heartbeat of X).                                                        *)
C1_ReconnectSameId ==
    [][\A n \in Names :
          (Connect(n) /\ lastDisc[n] # NoId) => ConnectAnswer(n).node_id = lastDisc[n]]_vars

(* C2: an id that Connect allocates is name_k with k the stored counter of *)
(* the name, greater than every counter issued for the name before, and is *)
(* not an id of the table; and no Connect answers with the id of a node    *)
(* the table marks alive.                                                  *)
C2_FreshId ==
    [][\A n \in Names :
          Connect(n) =>
             LET r == ConnectAnswer(n)
             IN  /\ r.fresh =>
                      /\ r.node_id = MkId(n, node_name_counters'[n])
                      /\ \A p \in issued : p[1] = n => p[2] < node_name_counters'[n]
                      /\ r.node_id \notin Ids(node_registry)
                 /\ r.node_id \in Ids(node_registry) =>
                      StatusOf(node_registry, r.node_id).status = "dead"]_vars

(* C2's case: a second id was allocated for a name whose first id is still *)
(* in the table.                                                           *)
C2_Witness ==
    /\ <<NameA, 2>> \in issued
    /\ {MkId(NameA, 1), MkId(NameA, 2)} \subseteq Ids(node_registry)

(* C4: after a successful Disconnect(id) with no later Connect or          *)
(* Heartbeat for id, every sweep pass leaves the node dead with reason     *)
(* "disconnected".                                                         *)
C4_DisconnectReasonKept ==
    [][Sweep =>
          \A id \in disconnected :
             /\ StatusOf(node_registry', id).status = "dead"
             /\ StatusOf(node_registry', id).reason = "disconnected"]_vars

(* C5 as stated: the first sweep pass after a dead node's Heartbeat        *)
(* reports it alive with reason cleared.                                   *)
C5_AliveAfterOneHeartbeat ==
    [][Sweep =>
          \A id \in resumed :
             /\ StatusOf(node_registry', id).status = "alive"
             /\ StatusOf(node_registry', id).reason = None]_vars

(* C5 amended: a sweep pass marks a node dead exactly when                 *)
(* now - last_message_time > expiry_time, and alive with reason cleared    *)
(* otherwise; a Heartbeat moves last_message_time to now and leaves        *)
(* life_status as it was. So a node that resumed is reported alive by the  *)
(* first pass that runs within expiry_time of one of its Heartbeats.       *)
C5_SweepDecides ==
    [][/\ Sweep =>
             \A i \in 1..Len(node_registry) :
                /\ node_registry'[i].life_status.status = "dead"
                      <=> now - node_registry[i].last_message_time > ExpiryTime
                /\ node_registry'[i].life_status.status = "alive"
                      <=> node_registry'[i].life_status.status # "dead"
                /\ node_registry'[i].life_status.status = "alive"
                      => node_registry'[i].life_status.reason = None
       /\ \A id \in Ids(node_registry) :
             Heartbeat(id) =>
                /\ StatusOf(node_registry', id) = StatusOf(node_registry, id)
                /\ Lookup(node_registry', id).last_message_time = now]_vars

(* C5's case: a node that was dead sent a Heartbeat and the sweep pass of  *)
(* this second reported it alive.                                          *)
C5_Witness ==
    \E id \in revived :
        /\ StatusOf(node_registry, id).status = "alive"
        /\ StatusOf(node_registry, id).reason = None

----------------------------------------------------------------------------
(* Properties of the outbound cache (SpecOutbound).                        *)

(* C6: a Heartbeat's answer carries the actions of all the                  *)
(* add_outbound_messages calls since the last drain, in call order, and    *)
(* leaves the cache with no action and the same config; a Heartbeat with   *)
(* no call since the last drain answers with no action and with the config *)
(* of the answer before.                                                   *)
C6_ActionsInCallOrder ==
    [][\A id \in DOMAIN node_outbound_cache :
          Heartbeat(id) =>
             LET r == HeartbeatAnswer(id)
             IN  /\ r.has_update
                 /\ r.actions = pushes.acts[id]
                 /\ node_outbound_cache'[id] = <<node_outbound_cache[id][1], <<>>>>
                 /\ r.config_update = node_outbound_cache[id][1]
                 /\ pushes.calls[id] = 0 =>
                       /\ r.actions = <<>>
                       /\ r.config_update = pushes.got[id][1]]_vars

(* C6's case: two calls gave [A] then [B], one Heartbeat answered [A, B],  *)
(* and the next Heartbeat answered no action and the same config.          *)
C6_Witness ==
    \E id \in DOMAIN pushes.prev :
        /\ pushes.prev[id] # <<>>
        /\ pushes.prev[id][2] = <<"A", "B">>
        /\ pushes.idle[id]
        /\ pushes.got[id] = <<pushes.prev[id][1], <<>>>>

(* C7 as stated: a Heartbeat's config_update is the config of the latest   *)
(* call that gave one (any value but None).                                *)
C7_LastWriteWins ==
    [][\A id \in DOMAIN node_outbound_cache :
          (Heartbeat(id) /\ pushes.cfg[id] # PyNone) =>
             HeartbeatAnswer(id).config_update = pushes.cfg[id]]_vars

(* C7 amended: a Heartbeat's config_update is the config of the latest     *)
(* call that gave a non-empty one, and the empty list if there was none; a *)
(* call whose config is None or empty leaves the cached config unchanged.  *)
C7_LastNonEmptyWins ==
    [][/\ \A id \in DOMAIN node_outbound_cache :
             Heartbeat(id) =>
                HeartbeatAnswer(id).config_update =
                   IF pushes.filled[id] # PyNone THEN pushes.filled[id] ELSE PyList(<<>>)
       /\ \A id \in DOMAIN node_outbound_cache, actions \in ActionLists :
             \A config \in {PyNone, PyList(<<>>)} :
                AddOutboundCall(id, config, actions) =>
                   node_outbound_cache'[id][1] = node_outbound_cache[id][1]]_vars

(* C7's case: a call gave a config, a later call gave the empty list, and  *)
(* the Heartbeat after them answered the earlier config.                   *)
C7_Witness ==
    \E id \in DOMAIN pushes.got :
        /\ pushes.cfg[id] = PyList(<<>>)
        /\ pushes.filled[id] = PyList(<<1>>)
        /\ pushes.calls[id] = 0
        /\ pushes.got[id][1] = PyList(<<1>>)

----------------------------------------------------------------------------
(* Properties of one NodeClient against the registry (SpecClient).         *)

HeartbeatFailures == Outcomes \ {"ok"}

(* C8: a Heartbeat that the registry answers with an error, because the    *)
(* node_id is not in the table, counts as a failed Heartbeat of the client. *)
C8_UnknownNodeCounts ==
    [][(/\ HeartbeatStep(1, {"ok"})
        /\ clients[1].node_id # NoId
        /\ HeartbeatAnswer(clients[1].node_id).message_type = "error")
          => clients'[1].consecutive_failures = clients[1].consecutive_failures + 1]_vars

(* C9: a Heartbeat that fails adds one to the failure count and one that   *)
(* succeeds sets it to 0; the client goes from connected to reconnecting   *)
(* in no other step than the failed Heartbeat that makes the count         *)
(* max_failures, always in that one, and then node_id is cleared and       *)
(* last_heartbeat_success is false.                                        *)
C9_ThirdFailureReconnects ==
    [][LET cl == clients[1]
           after == clients'[1]
       IN  /\ (cl.connection_state = "connected" /\ after.connection_state = "reconnecting")
                 => /\ HeartbeatStep(1, HeartbeatFailures)
                    /\ cl.consecutive_failures = max_failures - 1
                    /\ after.consecutive_failures = max_failures
                    /\ after.node_id = NoId
                    /\ ~after.last_heartbeat_success
           /\ (HeartbeatStep(1, HeartbeatFailures) /\ cl.connection_state = "connected")
                 => /\ after.consecutive_failures = cl.consecutive_failures + 1
                    /\ after.connection_state =
                          IF cl.consecutive_failures + 1 = max_failures
                          THEN "reconnecting" ELSE "connected"
                    /\ cl.consecutive_failures < max_failures
           /\ (HeartbeatStep(1, {"ok"}) /\ cl.connection_state = "connected")
                 => /\ after.consecutive_failures = 0
                    /\ after.connection_state = "connected"
                    /\ after.node_id = cl.node_id]_vars

(* C9's case: the third failed Heartbeat in a row has put the client into  *)
(* reconnection mode.                                                      *)
C9_Witness ==
    /\ clients[1].connection_state = "reconnecting"
    /\ clients[1].consecutive_failures = max_failures
    /\ clients[1].node_id = NoId
    /\ ~clients[1].last_heartbeat_success
    /\ clients[1].running

(* C10: a reconnecting client sends no Heartbeat; it becomes connected in  *)
(* no other step than an answered Connect of its loop, always in that one, *)
(* with the id of the answer and the failure count 0; a Connect that fails *)
(* leaves it reconnecting.                                                 *)
C10_ReconnectResets ==
    [][LET cl == clients[1]
           after == clients'[1]
       IN  /\ cl.connection_state = "reconnecting" => ~HeartbeatStep(1, Outcomes)
           /\ (cl.connection_state = "reconnecting" /\ after.connection_state = "connected")
                 => /\ ReconnectStep(1, {"ok"})
                    /\ after.consecutive_failures = 0
                    /\ after.node_id = ConnectAnswer(cl.node_name).node_id
                    /\ after.node_id # NoId
           /\ ReconnectStep(1, {"ok"})
                 => /\ after.connection_state = "connected"
                    /\ after.consecutive_failures = 0
           /\ ReconnectStep(1, HeartbeatFailures)
                 => /\ after.connection_state = "reconnecting"
                    /\ after.node_id = NoId]_vars

(* C10's case: the reconnecting client has connected again, under a second *)
(* id (its loop's Connect was answered), and counts no failure.            *)
C10_Witness ==
    /\ clients[1].connection_state = "connected"
    /\ clients[1].consecutive_failures = 0
    /\ clients[1].node_id = MkId(NameA, 2)
    /\ clients[1].running
    /\ restarts = 0

----------------------------------------------------------------------------
(* Properties of two NodeClients against the registry (SpecClients).       *)

Connected(c) ==
    /\ clients[c].running
    /\ clients[c].connection_state = "connected"
    /\ clients[c].node_id # NoId

----------------------------------------------------------------------------
(* Properties of NodeClient's start() and is_connected() (SpecClient).     *)

is_connected(cl) == cl.connection_state = "connected" /\ cl.last_heartbeat_success

(* C11 as stated: start() whose Connect is answered leaves the client      *)
(* connected with last_heartbeat_success true.                             *)
C11_StartSetsHeartbeatSuccess ==
    [][Start(1, {"ok"}) =>
          /\ clients'[1].connection_state = "connected"
          /\ clients'[1].last_heartbeat_success]_vars

(* C11 amended: start() on a new client performs one Connect and starts    *)
(* the heartbeat loop whatever its outcome; an answered Connect leaves the *)
(* client connected under the answer's id, with last_heartbeat_success     *)
(* still false (is_connected() is false until a Heartbeat is answered); a  *)
(* failed Connect leaves it reconnecting with no id.                       *)
C11_StartConnectsOnce ==
    [][LET cl == clients[1]
           after == clients'[1]
       IN  /\ Start(1, Outcomes) =>
                 /\ cl.connection_state = "disconnected" /\ ~cl.worker
                 /\ after.running /\ after.worker
                 /\ after.consecutive_failures = 0
                 /\ ~after.last_heartbeat_success /\ ~is_connected(after)
                 /\ \/ registryVars' = registryVars
                    \/ /\ node_registry' = ConnectPacketAnswer(connect_payload(cl)).reg
                       /\ node_name_counters' = ConnectPacketAnswer(connect_payload(cl)).counters
           /\ Start(1, {"ok"}) =>
                 /\ after.connection_state = "connected"
                 /\ after.node_id = ConnectAnswer(cl.node_name).node_id
                 /\ after.node_id \in Ids(node_registry')
           /\ Start(1, HeartbeatFailures) =>
                 /\ after.connection_state = "reconnecting"
                 /\ after.node_id = NoId]_vars

(* C11's case: start() was answered and no Heartbeat has been sent yet.    *)
C11_Witness ==
    /\ clients[1].owner = "started" /\ clients[1].running /\ clients[1].worker
    /\ clients[1].connection_state = "connected"
    /\ clients[1].node_id = MkId(NameA, 1)
    /\ ~clients[1].last_heartbeat_success
    /\ node_registry # <<>>
    /\ Lookup(node_registry, MkId(NameA, 1)).last_message_time = now
    /\ restarts = 0

(* C12: after a Heartbeat of the client that failed, of any kind,          *)
(* is_connected() is false.                                                *)
C12_FailedHeartbeatNotConnected ==
    [][HeartbeatStep(1, HeartbeatFailures) => ~is_connected(clients'[1])]_vars

----------------------------------------------------------------------------
(* The application's reads of a NodeClient: get_pending_actions and        *)
(* get_config_changes, called by the owning node at any time.              *)

MaxReads == 3

(* A variant of get_pending_actions that leaves the list as it is: C13's   *)
(* formula must tell it from the code's clear().                           *)
get_pending_actions_keep(cl) == [returned |-> cl.action_list, cl |-> cl]

(* get_pending_actions: copy, then clear, under _cache_lock. *)
get_pending_actions(cl) ==
    [returned |-> cl.action_list, cl |-> [cl EXCEPT !.action_list = <<>>]]

(* get_config_changes: copy under _cache_lock; the list is left alone. *)
get_config_changes(cl) == [returned |-> cl.config_changes_list, cl |-> cl]

GetPendingActions(c) ==
    /\ app.reads < MaxReads
    /\ clients' = [clients EXCEPT ![c] = get_pending_actions(@).cl]
    /\ app' = [app EXCEPT
          !.actions = get_pending_actions(clients[c]).returned,
          !.delivered = @ \o get_pending_actions(clients[c]).returned,
          !.reads = @ + 1]
    /\ UNCHANGED <<sweepWake, registryVars, restarts, histVars, snapshot, procVars>>

GetConfigChanges(c) ==
    /\ app.reads < MaxReads
    /\ clients' = [clients EXCEPT ![c] = get_config_changes(@).cl]
    /\ app' = [app EXCEPT
          !.config = get_config_changes(clients[c]).returned,
          !.reads = @ + 1]
    /\ UNCHANGED <<sweepWake, registryVars, restarts, histVars, snapshot, procVars>>

(* One NodeClient whose heartbeats are answered (in time or too late), the *)
(* orchestrator's outbound messages, and the owning node's reads.          *)

NextApp ==
    \/ Start(1, {"ok"})
    \/ HeartbeatStep(1, {"ok", "late"})
    \/ AddOutbound
    \/ GetPendingActions(1)
    \/ GetConfigChanges(1)

SpecApp == Init /\ [][NextApp]_vars

RECURSIVE IsSubseq(_, _)
IsSubseq(s, t) ==
    IF s = <<>> THEN TRUE
    ELSE IF t = <<>> THEN FALSE
    ELSE IF Head(s) = Head(t) THEN IsSubseq(Tail(s), Tail(t))
    ELSE IsSubseq(s, Tail(t))

(* C13 as stated, for get_config_changes: the call empties the internal    *)
(* store, so that a second call returns an empty list.                     *)
C13_ConfigReadEmpties ==
    [][GetConfigChanges(1) => clients'[1].config_changes_list = <<>>]_vars

(* C13, amended: get_pending_actions returns the whole action list and     *)
(* empties it, so an action is returned by at most one call; and           *)
(* get_config_changes returns the whole config list and leaves it stored,  *)
(* so every call returns it again until a Heartbeat response replaces it.  *)
(* The client has one node in the table; the actions the application got   *)
(* and those still waiting are, in order, among the ones pushed for it.    *)
C13_ActionsOnceConfigKept ==
    /\ [](\A i \in 1..Len(node_registry) :
             IsSubseq(app.delivered \o clients[1].action_list,
                      MapGet(pushes.acts, node_registry[i].node_id, <<>>)))
    /\ [][/\ GetPendingActions(1) =>
                /\ app'.actions = clients[1].action_list
                /\ clients'[1].action_list = <<>>
          /\ GetConfigChanges(1) =>
                /\ app'.config = clients[1].config_changes_list
                /\ clients'[1].config_changes_list = clients[1].config_changes_list]_vars

(* Both reads have returned something: the actions are gone from the       *)
(* client, the config is still there.                                      *)
C13_Witness ==
    /\ app.delivered # <<>>
    /\ app.config # <<>>
    /\ clients[1].action_list = <<>>
    /\ clients[1].config_changes_list = app.config

----------------------------------------------------------------------------
(* The owning node's update_schemas calls. *)

MaxUpdates == 1

ConfigSchemas == {"S1", "S2"}
CommandSchemas == {"K1"}

(* update_schemas(config_schema, command_schema): the schemas given are    *)
(* stored; a connected client with a node_id posts them to /data and       *)
(* ignores the answer. app.outage is the config schema of the last call    *)
(* that was made while not connected and gave one.                         *)
UpdateSchemasCall(c, config_schema, command_schema, outcomes) ==
    LET cl == store_schemas(clients[c], config_schema, command_schema)
    IN  /\ app.updates < MaxUpdates
        /\ clients' = [clients EXCEPT ![c] = cl]
        /\ IF cl.connection_state = "connected"
           THEN /\ IF cl.node_id # NoId
                   THEN \E o \in outcomes :
                           IF Served(o)
                           THEN ServeHeartbeatPacket(
                                    schema_payload(cl, config_schema, command_schema))
                           ELSE UNCHANGED registryVars
                   ELSE UNCHANGED registryVars
                /\ app' = [app EXCEPT
                      !.updates = @ + 1,
                      !.outage = IF config_schema # None THEN None ELSE @]
           ELSE /\ UNCHANGED registryVars
                /\ app' = [app EXCEPT
                      !.updates = @ + 1,
                      !.outage = IF config_schema # None THEN config_schema ELSE @]
        /\ UNCHANGED <<sweepWake, restarts, histVars, snapshot, procVars>>

UpdateSchemas(c, outcomes) ==
    \E config_schema \in ConfigSchemas \cup {None},
       command_schema \in CommandSchemas \cup {None} :
        UpdateSchemasCall(c, config_schema, command_schema, outcomes)

(* One NodeClient, its owner's schema updates, and the registry's sweep. *)

NextSchemas ==
    \/ Start(1, TwoOutcomes)
    \/ HeartbeatStep(1, TwoOutcomes)
    \/ ReconnectStep(1, TwoOutcomes)
    \/ UpdateSchemas(1, TwoOutcomes)
    \/ Sweep
    \/ Tick

SpecSchemas == Init /\ [][NextSchemas]_vars

(* The client's Connect was answered in time in this step. *)
ConnectedNow(c) ==
    /\ Start(c, {"ok"}) \/ ReconnectStep(c, {"ok"})
    /\ clients'[c].connection_state = "connected"

(* C14 as stated: a config schema set while the client was not connected, *)
(* and not set again since, is not in the registry's node after the        *)
(* client's next successful Connect.                                       *)
C14_OutageSchemaNeverReceived ==
    [][(ConnectedNow(1) /\ app.outage # None) =>
          Lookup(node_registry', clients'[1].node_id).config_schema # app.outage]_vars

(* C14, amended: update_schemas called while the client is not connected   *)
(* sends nothing to the registry and stores the schema in the client; the  *)
(* next successful Connect carries the stored schemas, so the registry's   *)
(* node then holds them with both change flags set.                        *)
C14_OutageSchemaSentOnConnect ==
    [][/\ (UpdateSchemas(1, TwoOutcomes) /\ clients[1].connection_state # "connected") =>
             /\ UNCHANGED registryVars
             /\ app'.outage # None => clients'[1].config_schema = app'.outage
       /\ ConnectedNow(1) =>
             LET node == Lookup(node_registry', clients'[1].node_id)
             IN  /\ node.config_schema = clients[1].config_schema
                 /\ node.command_schema = clients[1].command_schema
                 /\ node.change_flags = [config_schema |-> TRUE, command_schema |-> TRUE]
                 /\ app.outage # None => node.config_schema = app.outage]_vars

(* A schema set during an outage is in the registry's node of the          *)
(* connected client.                                                       *)
C14_Witness ==
    /\ app.outage # None
    /\ clients[1].connection_state = "connected"
    /\ clients[1].node_id \in Ids(node_registry)
    /\ Lookup(node_registry, clients[1].node_id).config_schema = app.outage

----------------------------------------------------------------------------
(* The registry under arbitrary request bodies, well-formed or not, and    *)
(* the orchestrator's outbound messages.                                   *)

MaxQueue == 1
MaxPacketNodes == 1

Payloads == {"P"}

QueueRoom(reg, data) ==
    \A i \in 1..Len(reg) :
        reg[i].node_id = data.node_id => Len(reg[i].payload_queue) < MaxQueue

(* Connect bodies: node_name present or missing, any optional field. *)
ConnectPackets ==
    {Packet(req \cup opt, NameA, NoId, payload, "S1", None) :
        req \in SUBSET {"node_name"},
        opt \in SUBSET {"payload", "config_schema"},
        payload \in Payloads}

(* Disconnect bodies: node_id present or missing. *)
DisconnectPackets ==
    {Packet(req, NameA, id, None, None, None) :
        req \in SUBSET {"node_id"}, id \in RequestIds}

(* Heartbeat bodies: all three required fields with any optional field,   *)
(* or one required field missing and both optional fields present.        *)
HeartbeatRequired == {"node_id", "node_name", "timestamp"}

HeartbeatPackets ==
    {Packet(HeartbeatRequired \cup opt, NameA, id, payload, "S2", None) :
        opt \in SUBSET {"payload", "config_schema"},
        payload \in Payloads,
        id \in RequestIds}
    \cup
    {Packet((HeartbeatRequired \ {f}) \cup {"payload", "config_schema"},
            NameA, id, payload, "S2", None) :
        f \in HeartbeatRequired,
        payload \in Payloads,
        id \in RequestIds}

(* The history of the well-formed senders above is not kept for these     *)
(* requests.                                                               *)
ConnectWith(data) ==
    /\ "node_name" \in data.keys =>
          \/ DeadWithName(node_registry, data.node_name) # {}
          \/ Len(node_registry) < MaxPacketNodes
    /\ ServeConnectPacket(data)
    /\ app' = [app EXCEPT !.answer = ConnectPacketAnswer(data).message_type]
    /\ UNCHANGED <<sweepWake, restarts, clients, histVars, snapshot, procVars>>

DisconnectWith(data) ==
    /\ ServeDisconnectPacket(data)
    /\ app' = [app EXCEPT !.answer = DisconnectPacketAnswer(data).message_type]
    /\ UNCHANGED <<sweepWake, restarts, clients, histVars, snapshot, procVars>>

HeartbeatWith(data) ==
    /\ QueueRoom(node_registry, data)
    /\ ServeHeartbeatPacket(data)
    /\ app' = [app EXCEPT !.answer = HeartbeatPacketAnswer(data).message_type]
    /\ UNCHANGED <<sweepWake, restarts, clients, histVars, snapshot, procVars>>

(* The orchestrator's main loop reads the table. *)
GetNodeRegistry ==
    /\ snapshot' = get_node_registry(node_registry).data
    /\ node_registry' = get_node_registry(node_registry).reg
    /\ UNCHANGED <<sweepWake, node_name_counters, node_outbound_cache, restarts,
                   clients, histVars, app, procVars>>

NextPackets ==
    \/ \E data \in ConnectPackets : ConnectWith(data)
    \/ \E data \in DisconnectPackets : DisconnectWith(data)
    \/ \E data \in HeartbeatPackets : HeartbeatWith(data)
    \/ \E id \in Ids(node_registry) : AddOutboundCall(id, PyList(<<1>>), PyList(<<"A">>))

SpecPackets == Init /\ [][NextPackets]_vars

(* The requests C15 is about: a body without a required field, or an id   *)
(* that is not in the table.                                               *)
Malformed(data, required) == ~(required \subseteq data.keys)

UnknownNode(data) == "node_id" \in data.keys /\ data.node_id \notin Ids(node_registry)

(* The registry under well-formed requests with optional fields, its      *)
(* sweep, and the orchestrator's reads of the table.                      *)

WellFormed(packets, required) == {data \in packets : required \subseteq data.keys}

NextReader ==
    \/ \E data \in WellFormed(ConnectPackets, {"node_name"}) : ConnectWith(data)
    \/ \E data \in WellFormed(DisconnectPackets, {"node_id"}) : DisconnectWith(data)
    \/ \E data \in WellFormed(HeartbeatPackets, HeartbeatRequired) : HeartbeatWith(data)
    \/ GetNodeRegistry
    \/ Sweep
    \/ Tick

SpecReader == Init /\ [][NextReader]_vars

(* The same without the passing of time (no node expires), for the nodes   *)
(* of the table: a Connect may carry a schema, a Heartbeat a payload.      *)

NextSnapshot ==
    \/ \E data \in WellFormed(ConnectPackets, {"node_name"}) :
          "payload" \notin data.keys /\ ConnectWith(data)
    \/ \E data \in WellFormed(DisconnectPackets, {"node_id"}) :
          ~UnknownNode(data) /\ DisconnectWith(data)
    \/ \E data \in WellFormed(HeartbeatPackets, HeartbeatRequired) :
          "config_schema" \notin data.keys /\ ~UnknownNode(data) /\ HeartbeatWith(data)
    \/ GetNodeRegistry

SpecSnapshot == Init /\ [][NextSnapshot]_vars

(* C15: in every state, a Connect without node_name, a Heartbeat without   *)
(* one of node_id, node_name, timestamp, and a Disconnect or Heartbeat     *)
(* whose node_id is not in the table are answered with an error and leave  *)
(* the table, the per-name counters and the outbound cache as they are.    *)
C15_ErrorsLeaveStateUnchanged ==
    /\ \A data \in ConnectPackets :
          Malformed(data, {"node_name"}) =>
              /\ ConnectPacketAnswer(data).message_type = "error"
              /\ ConnectPacketAnswer(data).reg = node_registry
              /\ ConnectPacketAnswer(data).counters = node_name_counters
    /\ \A data \in DisconnectPackets :
          (Malformed(data, {"node_id"}) \/ UnknownNode(data)) =>
              /\ DisconnectPacketAnswer(data).message_type = "error"
              /\ DisconnectPacketAnswer(data).reg = node_registry
    /\ \A data \in HeartbeatPackets :
          (Malformed(data, HeartbeatRequired) \/ UnknownNode(data)) =>
              /\ HeartbeatPacketAnswer(data).message_type = "error"
              /\ HeartbeatPacketAnswer(data).reg = node_registry
              /\ HeartbeatPacketAnswer(data).cache = node_outbound_cache

(* An error was the latest answer, with a node in the table and messages   *)
(* waiting for it in the cache.                                            *)
C15_Witness ==
    /\ app.answer = "error"
    /\ node_registry # <<>>
    /\ \E id \in DOMAIN node_outbound_cache : node_outbound_cache[id][2] # <<>>

RECURSIVE IsPrefix(_, _)
IsPrefix(s, t) ==
    IF s = <<>> THEN TRUE
    ELSE IF t = <<>> THEN FALSE
    ELSE Head(s) = Head(t) /\ IsPrefix(Tail(s), Tail(t))

(* C16: a step that is not a get_node_registry call keeps every node of    *)
(* the table, every change flag that is set, and every queued payload (new *)
(* payloads go behind the queued ones).                                    *)
C16_FlagsAndPayloadsKept ==
    [][~GetNodeRegistry =>
          \A i \in 1..Len(node_registry) :
              LET old == node_registry[i]
                  new == Lookup(node_registry', old.node_id)
              IN  /\ old.node_id \in Ids(node_registry')
                  /\ old.change_flags.config_schema => new.change_flags.config_schema
                  /\ old.change_flags.command_schema => new.change_flags.command_schema
                  /\ IsPrefix(old.payload_queue, new.payload_queue)]_vars

(* The table the orchestrator sees through the snapshot it holds: a Node   *)
(* object the snapshot shares with the live table shows the live fields.   *)
SnapshotView ==
    [i \in 1..Len(snapshot.nodes) |->
        IF snapshot.nodes[i].node_id \in snapshot.shared
           /\ snapshot.nodes[i].node_id \in Ids(node_registry)
        THEN Lookup(node_registry, snapshot.nodes[i].node_id)
        ELSE snapshot.nodes[i]]

(* C17: a get_node_registry call returns the table as it was when the call *)
(* began, with every flag and payload the handlers had written, and leaves *)
(* the live table with the same nodes, their flags and queues cleared and  *)
(* nothing else changed; and no other step changes what the returned       *)
(* snapshot shows.                                                         *)
C17_SnapshotThenClear ==
    [][IF GetNodeRegistry
       THEN /\ SnapshotView' = node_registry
            /\ node_registry' = cleared_registry(node_registry)
       ELSE SnapshotView' = SnapshotView]_vars

(* A snapshot that holds a flag and a payload which the live table no      *)
(* longer has, while the live table has a newer payload.                   *)
C17_Witness ==
    /\ snapshot.taken
    /\ \E i \in 1..Len(snapshot.nodes) :
          LET seen == SnapshotView[i]
              live == Lookup(node_registry, seen.node_id)
          IN  /\ seen.node_id \in Ids(node_registry)
              /\ seen.change_flags.config_schema
              /\ seen.payload_queue # <<>>
              /\ ~live.change_flags.config_schema
              /\ live.payload_queue # <<>>

----------------------------------------------------------------------------
(* The registry statement by statement: every operation takes              *)
(* node_data_lock, makes its writes one at a time, and releases the lock.  *)

(* A variant of `with self.node_data_lock` that enters without the lock:   *)
(* C18's formula must tell it from the code's.                             *)
lock_acquire_skipped(lock, t) == [ok |-> TRUE, lock |-> lock]

(* threading.Lock: __enter__ blocks until the lock is free, __exit__       *)
(* frees it.                                                               *)
lock_acquire(lock, t) == [ok |-> lock = "free", lock |-> t]

lock_release(lock, t) == IF lock = t THEN "free" ELSE lock

ThreadOps(t) ==
    CASE t \in {"flask_1", "flask_2"} -> {"connect_node", "disconnect_node", "handle_heartbeat"}
      [] t = "cleanup" -> {"cleanup_task"}
      [] t = "main" -> {"get_node_registry", "add_outbound_messages", "update_remote_data"}

(* The requests and calls of this specification: one sender, which        *)
(* connects when it has no node in the table or a dead one.                *)
OpData(op) ==
    CASE op = "connect_node" ->
            {data \in WellFormed(ConnectPackets, {"node_name"}) :
                /\ {"payload", "config_schema"} \subseteq data.keys
                /\ \/ DeadWithName(node_registry, data.node_name) # {}
                   \/ node_registry = <<>>}
      [] op = "disconnect_node" ->
            {data \in WellFormed(DisconnectPackets, {"node_id"}) : ~UnknownNode(data)}
      [] op = "handle_heartbeat" ->
            {data \in WellFormed(HeartbeatPackets, HeartbeatRequired) :
                /\ {"payload", "config_schema"} \subseteq data.keys
                /\ QueueRoom(node_registry, data)}
      [] op = "add_outbound_messages" ->
            {Packet({}, NameA, id, None, None, None) :
                id \in {i \in Ids(node_registry) :
                           Len(MapGet(node_outbound_cache, i, <<PyNone, <<>>>>)[2]) < MaxPushes}}
      [] OTHER -> {NoData}

(* The thread passes `with self.node_data_lock:` and remembers, for the    *)
(* check only, the table, counters and cache it found.                     *)
Enter(t, op, data) ==
    /\ pc[t].at = "idle"
    /\ op = "cleanup_task" => now >= sweepWake
    /\ lock_acquire(node_data_lock, t).ok
    /\ node_data_lock' = lock_acquire(node_data_lock, t).lock
    /\ pc' = [pc EXCEPT ![t] = [Idle EXCEPT !.op = op, !.at = "locked", !.data = data,
                                            !.node_id = data.node_id, !.i = 1,
                                            !.begin = registryVars]]
    /\ UNCHANGED <<sweepWake, registryVars, restarts, clients, histVars, readerVars, udp, peerVars>>

(* connect_node: the new Node is put into the table, then the optional     *)
(* fields of the request are stored in it.                                 *)
ConnectInsert(t) ==
    LET c == connect_node(node_registry, node_name_counters, pc[t].data.node_name, now)
    IN  /\ pc[t].op = "connect_node" /\ pc[t].at = "locked"
        /\ node_registry' = c.reg
        /\ node_name_counters' = c.counters
        /\ pc' = [pc EXCEPT ![t].at = "inserted", ![t].node_id = c.node_id]
        /\ UNCHANGED <<sweepWake, node_outbound_cache, restarts, clients, histVars,
                       readerVars, node_data_lock, udp, peerVars>>

StoreOptional(t, op, from, to) ==
    /\ pc[t].op = op /\ pc[t].at = from
    /\ node_registry' =
          Put(node_registry, store_optional(Lookup(node_registry, pc[t].node_id), pc[t].data))
    /\ pc' = [pc EXCEPT ![t].at = to]
    /\ UNCHANGED <<sweepWake, node_name_counters, node_outbound_cache, restarts, clients,
                   histVars, readerVars, node_data_lock, udp, peerVars>>

ConnectOptional(t) == StoreOptional(t, "connect_node", "inserted", "done")

DisconnectWrite(t) ==
    /\ pc[t].op = "disconnect_node" /\ pc[t].at = "locked"
    /\ node_registry' = disconnect_node(node_registry, pc[t].node_id, now).reg
    /\ pc' = [pc EXCEPT ![t].at = "done"]
    /\ UNCHANGED <<sweepWake, node_name_counters, node_outbound_cache, restarts, clients,
                   histVars, readerVars, node_data_lock, udp, peerVars>>

(* handle_heartbeat: an unknown id is answered at once; else the optional  *)
(* fields are stored, then the node is touched and the cache is drained.   *)
HeartbeatUnknown(t) ==
    /\ pc[t].op = "handle_heartbeat" /\ pc[t].at = "locked"
    /\ pc[t].node_id \notin Ids(node_registry)
    /\ pc' = [pc EXCEPT ![t].at = "done"]
    /\ UNCHANGED <<sweepWake, registryVars, restarts, clients, histVars, readerVars,
                   node_data_lock, udp, peerVars>>

HeartbeatOptional(t) ==
    /\ pc[t].node_id \in Ids(node_registry)
    /\ StoreOptional(t, "handle_heartbeat", "locked", "stored")

HeartbeatTouch(t) ==
    LET h == handle_heartbeat(node_registry, node_outbound_cache, pc[t].node_id, now)
    IN  /\ pc[t].op = "handle_heartbeat" /\ pc[t].at = "stored"
        /\ node_registry' = h.reg
        /\ node_outbound_cache' = h.cache
        /\ pc' = [pc EXCEPT ![t].at = "done"]
        /\ UNCHANGED <<sweepWake, node_name_counters, restarts, clients, histVars,
                       readerVars, node_data_lock, udp, peerVars>>

(* cleanup_task: the loop over the table, one node at a time. *)
CleanupNode(t) ==
    /\ pc[t].op = "cleanup_task" /\ pc[t].at = "locked"
    /\ IF pc[t].i <= Len(node_registry)
       THEN /\ node_registry' =
                  [node_registry EXCEPT ![pc[t].i] = sweep_node(@, now, ExpiryTime)]
            /\ pc' = [pc EXCEPT ![t].i = @ + 1]
       ELSE /\ pc' = [pc EXCEPT ![t].at = "done"]
            /\ UNCHANGED node_registry
    /\ UNCHANGED <<sweepWake, node_name_counters, node_outbound_cache, restarts, clients,
                   histVars, readerVars, node_data_lock, udp, peerVars>>

(* get_node_registry: the deepcopy, then the loop that clears. *)
ReaderCopy(t) ==
    /\ pc[t].op = "get_node_registry" /\ pc[t].at = "locked"
    /\ snapshot' = get_node_registry(node_registry).data
    /\ pc' = [pc EXCEPT ![t].at = "copied"]
    /\ UNCHANGED <<sweepWake, registryVars, restarts, clients, histVars, app,
                   node_data_lock, udp, peerVars>>

ReaderClear(t) ==
    /\ pc[t].op = "get_node_registry" /\ pc[t].at = "copied"
    /\ node_registry' = cleared_registry(node_registry)
    /\ pc' = [pc EXCEPT ![t].at = "done"]
    /\ UNCHANGED <<sweepWake, node_name_counters, node_outbound_cache, restarts, clients,
                   histVars, readerVars, node_data_lock, udp, peerVars>>

(* add_outbound_messages: the entry is created if it is missing, then the  *)
(* config and the actions are merged into it.                              *)
OutboundEntry(t) ==
    /\ pc[t].op = "add_outbound_messages" /\ pc[t].at = "locked"
    /\ node_outbound_cache' =
          add_outbound_messages(node_outbound_cache, pc[t].node_id, PyNone, PyNone)
    /\ pc' = [pc EXCEPT ![t].at = "entry"]
    /\ UNCHANGED <<sweepWake, node_registry, node_name_counters, restarts, clients,
                   histVars, readerVars, node_data_lock, udp, peerVars>>

OutboundMerge(t) ==
    /\ pc[t].op = "add_outbound_messages" /\ pc[t].at = "entry"
    /\ node_outbound_cache' =
          add_outbound_messages(node_outbound_cache, pc[t].node_id,
                                PyList(<<1>>), PyList(<<"A">>))
    /\ pc' = [pc EXCEPT ![t].at = "done"]
    /\ UNCHANGED <<sweepWake, node_registry, node_name_counters, restarts, clients,
                   histVars, readerVars, node_data_lock, udp, peerVars>>

(* update_remote_data writes remote_data, which is not part of the model. *)
RemoteData(t) ==
    /\ pc[t].op = "update_remote_data" /\ pc[t].at = "locked"
    /\ pc' = [pc EXCEPT ![t].at = "done"]
    /\ UNCHANGED <<sweepWake, registryVars, restarts, clients, histVars, readerVars,
                   node_data_lock, udp, peerVars>>

(* The end of the with block; cleanup_task then sleeps. *)
Exit(t) ==
    /\ pc[t].at = "done"
    /\ node_data_lock' = lock_release(node_data_lock, t)
    /\ pc' = [pc EXCEPT ![t] = Idle]
    /\ sweepWake' = IF pc[t].op = "cleanup_task" THEN now + SweepSleep ELSE sweepWake
    /\ UNCHANGED <<registryVars, restarts, clients, histVars, readerVars, udp, peerVars>>

(* Time passes between operations: an operation takes far less than a     *)
(* second.                                                                 *)
TickIdle ==
    /\ \A t \in Threads : pc[t].at = "idle"
    /\ Tick

NextLock ==
    \/ \E t \in Threads : \E op \in ThreadOps(t) : \E data \in OpData(op) : Enter(t, op, data)
    \/ \E t \in Threads : ConnectInsert(t)
    \/ \E t \in Threads : ConnectOptional(t)
    \/ \E t \in Threads : DisconnectWrite(t)
    \/ \E t \in Threads : HeartbeatUnknown(t)
    \/ \E t \in Threads : HeartbeatOptional(t)
    \/ \E t \in Threads : HeartbeatTouch(t)
    \/ \E t \in Threads : CleanupNode(t)
    \/ \E t \in Threads : ReaderCopy(t)
    \/ \E t \in Threads : ReaderClear(t)
    \/ \E t \in Threads : OutboundEntry(t)
    \/ \E t \in Threads : OutboundMerge(t)
    \/ \E t \in Threads : RemoteData(t)
    \/ \E t \in Threads : Exit(t)
    \/ TickIdle

SpecLock == Init /\ [][NextLock]_vars

(* What the operation of a thread makes of the table, counters and cache   *)
(* it found, when it runs alone: the handlers as single steps.             *)
Whole(p) ==
    LET reg == p.begin[1]
        counters == p.begin[2]
        cache == p.begin[3]
    IN  CASE p.op = "connect_node" ->
                <<connect_packet(reg, counters, p.data, now).reg,
                  connect_packet(reg, counters, p.data, now).counters, cache>>
          [] p.op = "disconnect_node" ->
                <<disconnect_packet(reg, p.data, now).reg, counters, cache>>
          [] p.op = "handle_heartbeat" ->
                <<heartbeat_packet(reg, cache, p.data, now).reg, counters,
                  heartbeat_packet(reg, cache, p.data, now).cache>>
          [] p.op = "cleanup_task" ->
                <<cleanup_pass(reg, now, ExpiryTime), counters, cache>>
          [] p.op = "get_node_registry" ->
                <<get_node_registry(reg).reg, counters, cache>>
          [] p.op = "add_outbound_messages" ->
                <<reg, counters,
                  add_outbound_messages(cache, p.node_id, PyList(<<1>>), PyList(<<"A">>))>>
          [] OTHER -> p.begin

(* C18: a thread that is inside one of the seven operations holds          *)
(* node_data_lock, so at most one is; the table, the counters and the      *)
(* cache change only in a step of the thread that holds the lock; and when *)
(* an operation ends, they are what the operation makes of the state it    *)
(* found: no other operation saw or changed them in between.               *)
C18_TableUnderLock ==
    /\ [](\A t \in Threads : pc[t].at # "idle" => node_data_lock = t)
    /\ [][/\ (registryVars' # registryVars /\ ~TickIdle) =>
                \E t \in Threads :
                    /\ node_data_lock = t
                    /\ pc'[t] # pc[t]
                    /\ \A u \in Threads \ {t} : pc'[u] = pc[u]
          /\ \A t \in Threads :
                Exit(t) =>
                    /\ registryVars = Whole(pc[t])
                    /\ pc[t].op = "get_node_registry" => snapshot.nodes = pc[t].begin[1]]_vars

(* A request thread holds the lock in the middle of a Connect: the new     *)
(* Node is in the table without the schema of the request, while messages  *)
(* of an earlier add_outbound_messages wait in the cache.                  *)
C18_Witness ==
    \E t \in Threads :
        /\ pc[t].op = "connect_node" /\ pc[t].at = "inserted"
        /\ node_data_lock = t
        /\ Lookup(node_registry, pc[t].node_id).config_schema = None
        /\ node_outbound_cache # EmptyMap

----------------------------------------------------------------------------
(* A UDPRemoteConnector and the node that sends frames through it. *)

MaxLen == 4
MaxPoints == 1
MaxFrames == 1

MaxFragments == 65535

Kinds == {"rgb", "depth", "pointcloud"}

HeaderSize(kind) == IF kind = "pointcloud" THEN POINTCLOUD_HEADER_SIZE ELSE HEADER_SIZE

HeaderFormat(kind) == IF kind = "pointcloud" THEN PointcloudFormat ELSE FrameFormat

FrameType(kind) ==
    CASE kind = "rgb" -> FRAME_TYPE_RGB
      [] kind = "depth" -> FRAME_TYPE_DEPTH
      [] kind = "pointcloud" -> FRAME_TYPE_POINTCLOUD

(* Depth frames use the point cloud's counter. *)
FrameId(u, kind) == IF kind = "rgb" THEN u.rgb_frame_id ELSE u.pointcloud_frame_id

(* chunk_size around the two header sizes. *)
ChunkSizes ==
    {HEADER_SIZE - 1, HEADER_SIZE, HEADER_SIZE + 1, HEADER_SIZE + 2,
     POINTCLOUD_HEADER_SIZE, POINTCLOUD_HEADER_SIZE + 1, POINTCLOUD_HEADER_SIZE + 2}

(* The lengths of the encoded frames: short ones, and for a chunk_size     *)
(* above the header size one that needs MaxFragments + 1 fragments. A      *)
(* point cloud has 9 bytes per point.                                      *)
Lengths(u, kind) ==
    LET payload_size == u.chunk_size - HeaderSize(kind)
        long == IF payload_size > 0 THEN {MaxFragments * payload_size + 1} ELSE {}
    IN  IF kind = "pointcloud"
        THEN {9 * n : n \in 1..MaxPoints} \cup {9 * ((n + 8) \div 9) : n \in long}
        ELSE 1..MaxLen \cup long

InitUdp ==
    /\ InitRegistry
    /\ clients = [c \in Clients |-> NodeClient(IF c = 1 THEN NameA ELSE NameB)]
    /\ udp \in {UDPRemoteConnector(chunk_size, localhost_port, extra_send_locations) :
                  chunk_size \in ChunkSizes,
                  localhost_port \in {None, "9000"},
                  extra_send_locations \in {<<>>, <<"extra_1">>}}
    /\ IdleTcp
    /\ IdleDiscovery
    /\ IdleComms

UdpConnect ==
    /\ ~udp.connected
    /\ udp' = [udp EXCEPT !.connected = TRUE]
    /\ UNCHANGED <<sweepWake, registryVars, restarts, clients, histVars, readerVars,
                   node_data_lock, pc, peerVars>>

UdpDisconnect ==
    /\ udp.connected
    /\ udp' = [udp EXCEPT !.connected = FALSE]
    /\ UNCHANGED <<sweepWake, registryVars, restarts, clients, histVars, readerVars,
                   node_data_lock, pc, peerVars>>

(* send_rgb_frame, send_depth_frame or send_pointcloud_frame of object u   *)
(* with a frame whose encoding has the given length. `success` is false    *)
(* when the encoding fails (imencode returns False or raises, the point    *)
(* cloud conversion raises); `failing` are the destinations whose sendto   *)
(* raises. An exception of the fragmenting ends the call before the frame  *)
(* id is incremented.                                                      *)
send_encoded(u, kind, input, data, success, failing) ==
    LET length == data.len
        called == [u EXCEPT !.calls = @ + 1]
        u1 == IF kind = "rgb" THEN maybe_send_intrinsics(called, kind, failing) ELSE called
        u2 == record_encode(u1, kind, success)
        u3 == IF kind = "rgb" THEN maybe_log_stats(u2) ELSE u2
        id == FrameId(u, kind)
        r == send_fragmented(data, u.chunk_size, HeaderSize(kind),
                             HeaderFormat(kind), FrameType(kind), id)
        u4 == IF r.raised = "None" THEN advance_frame_id(u3, kind) ELSE u3
    IN  IF ~u.connected THEN called
        ELSE IF ~success
        THEN [u2 EXCEPT
                !.frame = [sent |-> FALSE, encoded |-> FALSE, flushed |-> FALSE,
                           kind |-> kind, length |-> length, frame_id |-> id,
                           input |-> input, raised |-> "None", packets |-> <<>>],
                !.attempts = <<>>]
        ELSE [u4 EXCEPT
                !.frame = [sent |-> TRUE, encoded |-> TRUE,
                           flushed |-> (kind = "rgb" /\ u2.since_log >= u2.log_interval),
                           kind |-> kind, length |-> length, frame_id |-> id,
                           input |-> input, raised |-> r.raised, packets |-> r.packets],
                !.attempts = [k \in 1..Len(r.packets) |->
                                 send_packet_to_destinations(u, failing)],
                !.sent_ids = IF r.packets # <<>>
                             THEN Append(@, [kind |-> kind, frame_id |-> id])
                             ELSE @]

send_frame(u, kind, length, success, failing) ==
    send_encoded(u, kind, length, Data(length), success, failing)

SendFrame(kind, length, failing) ==
    /\ udp.calls < MaxFrames
    /\ udp' = send_frame(udp, kind, length, TRUE, failing)
    /\ UNCHANGED <<sweepWake, registryVars, restarts, clients, histVars, readerVars,
                   node_data_lock, pc, peerVars>>

Range(s) == {s[k] : k \in 1..Len(s)}

NextUdp ==
    \/ UdpConnect
    \/ UdpDisconnect
    \/ \E kind \in Kinds :
          \E length \in Lengths(udp, kind), failing \in SUBSET Range(Destinations(udp)) :
              SendFrame(kind, length, failing)

SpecUdp == InitUdp /\ [][NextUdp]_vars

(* C19: for every packet handed to _send_packet_to_destinations there is   *)
(* a sendto call for every destination, whichever of them fail.            *)
C19_EveryDestinationTried ==
    \A k \in 1..Len(udp.attempts) :
        {udp.attempts[k][j].dest : j \in 1..Len(udp.attempts[k])} = Range(Destinations(udp))

Ceil(a, b) == IF a % b = 0 THEN a \div b ELSE a \div b + 1

RECURSIVE Concat(_)
Concat(packets) ==
    IF packets = <<>> THEN <<>> ELSE Head(packets).payload \o Concat(Tail(packets))

(* The latest frame was sent as ceil(L / (C - H)) packets with fragment_seq *)
(* 0..total-1, one frame_id and fragment_total, none longer than C, whose  *)
(* payloads in order are the frame's bytes.                                *)
FragmentedWhole ==
    LET f == udp.frame
        total == Ceil(f.length, udp.chunk_size - HeaderSize(f.kind))
    IN  /\ f.raised = "None"
        /\ Len(f.packets) = total
        /\ \A k \in 1..Len(f.packets) :
              /\ f.packets[k].frag_seq = k - 1
              /\ f.packets[k].total_fragments = total
              /\ f.packets[k].frame_id = f.frame_id
              /\ f.packets[k].size <= udp.chunk_size
        /\ Concat(f.packets) = BytesOf(Data(f.length))

(* C20 as stated, for every frame of length L >= 1 sent with a chunk_size  *)
(* C above the header size H.                                              *)
C20_EveryFrameFragmented ==
    (udp.frame.sent /\ udp.chunk_size > HeaderSize(udp.frame.kind)) => FragmentedWhole

(* C20, amended: the frame is sent whole as stated when C > H and          *)
(* ceil(L / (C - H)) is at most 65535, the largest fragment_total the      *)
(* header holds. With more fragments, and with C = H, the call raises and  *)
(* no packet is sent; with C < H no payload byte is sent.                  *)
C20_FragmentedWithinHeaderRange ==
    LET f == udp.frame
        payload_size == udp.chunk_size - HeaderSize(f.kind)
    IN  f.sent =>
           CASE payload_size > 0 /\ Ceil(f.length, payload_size) <= MaxFragments ->
                    FragmentedWhole
             [] payload_size > 0 /\ Ceil(f.length, payload_size) > MaxFragments ->
                    f.raised = "struct.error" /\ f.packets = <<>>
             [] payload_size = 0 ->
                    f.raised = "ZeroDivisionError" /\ f.packets = <<>>
             [] payload_size < 0 ->
                    f.raised = "None" /\ Concat(f.packets) = <<>>

(* A frame that took more than one packet, the last one shorter than the   *)
(* others.                                                                 *)
C20_Witness ==
    /\ udp.frame.sent
    /\ udp.frame.raised = "None"
    /\ Len(udp.frame.packets) > 1
    /\ Len(udp.frame.packets[Len(udp.frame.packets)].payload)
           < Len(udp.frame.packets[1].payload)

----------------------------------------------------------------------------
(* The receiving side of a JSONRemoteConnector: a peer writes framed       *)
(* messages, recv returns the stream in chunks of any size.                *)

MaxMessages == 2

StreamMessages == {7, 42}

RECV_SIZE == 4096

InitStream ==
    /\ InitRegistry
    /\ clients = [c \in Clients |-> NodeClient(IF c = 1 THEN NameA ELSE NameB)]
    /\ IdleUdp
    /\ tcp = [JSONRemoteConnector("host_0", "9001") EXCEPT
                 !.connected = TRUE, !.running = TRUE, !.worker_thread = "alive"]
    /\ IdleDiscovery
    /\ IdleComms

(* The peer frames one message and writes it to the connection. *)
PeerWrite(data) ==
    /\ Len(tcp.peer_sent) < MaxMessages
    /\ tcp' = [tcp EXCEPT !.wire_in = @ \o message(data),
                          !.peer_sent = Append(@, data)]
    /\ UNCHANGED <<sweepWake, registryVars, restarts, clients, histVars, readerVars,
                   node_data_lock, pc, udp, discovery, nodeVars>>

(* One pass of the worker's loop in which recv returns the next `size`     *)
(* bytes (lines 97-117); an exception ends the worker (lines 122-125).     *)
WorkerRecv(size) ==
    LET data == SubSeq(tcp.wire_in, 1, size)
        r == extract_frames(tcp.recv_buffer \o data, tcp.incoming_queue)
    IN  /\ tcp.running /\ tcp.worker_thread = "alive"
        /\ size >= 1 /\ size <= PyMin(Len(tcp.wire_in), RECV_SIZE)
        /\ tcp' = [tcp EXCEPT
                !.wire_in = SubSeq(@, size + 1, Len(@)),
                !.recv_buffer = r.recv_buffer,
                !.incoming_queue = r.incoming_queue,
                !.connected = IF r.raised THEN FALSE ELSE @,
                !.worker_thread = IF r.raised THEN "ended" ELSE @,
                !.split = @ \/ (Len(r.recv_buffer) > 0 /\ Len(r.recv_buffer) < 4),
                !.several = @ \/ Len(r.incoming_queue) > Len(tcp.incoming_queue) + 1]
        /\ UNCHANGED <<sweepWake, registryVars, restarts, clients, histVars, readerVars,
                       node_data_lock, pc, udp, discovery, nodeVars>>

(* get_received_data: everything queued, and the queue is empty after it. *)
GetReceivedData ==
    /\ tcp' = [tcp EXCEPT !.returned = @ \o tcp.incoming_queue,
                          !.incoming_queue = <<>>]
    /\ UNCHANGED <<sweepWake, registryVars, restarts, clients, histVars, readerVars,
                   node_data_lock, pc, udp, discovery, nodeVars>>

NextStream ==
    \/ \E data \in StreamMessages : PeerWrite(data)
    \/ \E size \in 1..(MaxMessages * 6) : WorkerRecv(size)
    \/ GetReceivedData

SpecStream == InitStream /\ [][NextStream]_vars

(* The bytes of the first k messages on the wire: 4 for the length and one *)
(* for every decimal digit.                                                *)
DecimalDigits(n) == IF n < 10 THEN 1 ELSE IF n < 100 THEN 2 ELSE 3

RECURSIVE FramedLen(_, _)
FramedLen(msgs, k) ==
    IF k = 0 THEN 0 ELSE FramedLen(msgs, k - 1) + 4 + DecimalDigits(msgs[k])

(* The messages whose last byte a recv has returned. *)
FullyReceived ==
    LET got == FramedLen(tcp.peer_sent, Len(tcp.peer_sent)) - Len(tcp.wire_in)
        n == CHOOSE k \in 0..Len(tcp.peer_sent) :
                /\ FramedLen(tcp.peer_sent, k) <= got
                /\ \A j \in 0..Len(tcp.peer_sent) :
                      FramedLen(tcp.peer_sent, j) <= got => j <= k
    IN  SubSeq(tcp.peer_sent, 1, n)

(* C21: whatever the chunks, the messages returned so far followed by the  *)
(* queued ones are exactly the messages received in full, in the order     *)
(* sent, and the worker is still running.                                  *)
C21_StreamReassembled ==
    /\ tcp.returned \o tcp.incoming_queue = FullyReceived
    /\ tcp.worker_thread = "alive"

(* Both messages returned after a recv that split a length prefix and one  *)
(* that completed two frames.                                              *)
C21_Witness ==
    /\ tcp.split /\ tcp.several
    /\ Len(tcp.peer_sent) >= 2
    /\ tcp.returned = tcp.peer_sent

----------------------------------------------------------------------------
(* A JSONRemoteConnector whose owner reconnects to a new destination while *)
(* a second thread calls send_data. Destinations are numbered: reconnect   *)
(* number k goes to host k, the first connect went to host 0.              *)

MaxReconnects == 2
MaxSends == 2

InitTcp ==
    /\ InitRegistry
    /\ clients = [c \in Clients |-> NodeClient(IF c = 1 THEN NameA ELSE NameB)]
    /\ IdleUdp
    /\ tcp = [JSONRemoteConnector(0, "9001") EXCEPT
                 !.connected = TRUE, !.running = TRUE, !.worker_thread = "alive"]
    /\ IdleDiscovery
    /\ IdleComms

tcpUnchanged ==
    UNCHANGED <<sweepWake, registryVars, restarts, clients, histVars, readerVars,
                node_data_lock, pc, udp, discovery, nodeVars>>

(* send_data, line 58: the read of self.connected. *)
SendDataCheck(data) ==
    /\ tcp.send_data.at = "idle"
    /\ Len(tcp.wire_out) + Len(tcp.outgoing_queue) < MaxSends
    /\ tcp' = [tcp EXCEPT !.send_data =
                  IF tcp.connected
                  THEN [at |-> "put", data |-> data, epoch |-> tcp.reconnects]
                  ELSE @]
    /\ tcpUnchanged

(* send_data, line 59: the put that follows a read of True. *)
SendDataPut ==
    /\ tcp.send_data.at = "put"
    /\ tcp' = [tcp EXCEPT
            !.outgoing_queue = Append(@, [data |-> tcp.send_data.data,
                                          epoch |-> tcp.send_data.epoch]),
            !.send_data = [at |-> "idle", data |-> 0, epoch |-> 0]]
    /\ tcpUnchanged

(* The worker's lines 87-92: one queued value is written to the socket,    *)
(* which is connected to self.host.                                        *)
WorkerSend ==
    /\ tcp.running /\ tcp.worker_thread = "alive"
    /\ tcp.outgoing_queue # <<>>
    /\ tcp' = [tcp EXCEPT
            !.outgoing_queue = Tail(@),
            !.wire_out = Append(@, [to |-> tcp.host,
                                    data |-> Head(tcp.outgoing_queue).data,
                                    epoch |-> Head(tcp.outgoing_queue).epoch])]
    /\ tcpUnchanged

(* The worker's lines 97-114 for one whole frame from the connected host. *)
WorkerQueue(data) ==
    /\ tcp.running /\ tcp.worker_thread = "alive"
    /\ Len(tcp.incoming_queue) < MaxMessages - 1
    /\ tcp' = [tcp EXCEPT !.incoming_queue = Append(@, [from |-> tcp.host, data |-> data])]
    /\ tcpUnchanged

(* The worker's lines 122-125: an exception of the socket ends it. *)
WorkerError ==
    /\ tcp.running /\ tcp.worker_thread = "alive"
    /\ tcp' = [tcp EXCEPT !.connected = FALSE, !.worker_thread = "ended"]
    /\ tcpUnchanged

(* reconnect, line 50: disconnect() returns when the worker has ended. *)
ReconnectDisconnect ==
    /\ tcp.at = "idle"
    /\ tcp.reconnects < MaxReconnects
    /\ tcp' = [tcp EXCEPT !.running = FALSE, !.connected = FALSE,
                          !.worker_thread = IF @ = "none" THEN @ ELSE "ended",
                          !.reconnects = @ + 1,
                          !.at = "clear"]
    /\ tcpUnchanged

(* reconnect, line 51: _clear_queues *)
ReconnectClear ==
    /\ tcp.at = "clear"
    /\ tcp' = [tcp EXCEPT !.incoming_queue = <<>>, !.outgoing_queue = <<>>,
                          !.at = "connect"]
    /\ tcpUnchanged

(* reconnect, lines 52-54: the new host and port, and connect(), which     *)
(* starts a worker unless the socket's connect raises.                     *)
ReconnectConnect(ok) ==
    /\ tcp.at = "connect"
    /\ tcp' = [tcp EXCEPT !.host = tcp.reconnects,
                          !.connected = IF ok THEN TRUE ELSE @,
                          !.running = IF ok THEN TRUE ELSE @,
                          !.worker_thread = IF ok THEN "alive" ELSE @,
                          !.at = "idle"]
    /\ tcpUnchanged

(* get_received_data by the thread that reconnects, between two calls of   *)
(* reconnect.                                                              *)
GetReceivedAfter ==
    /\ tcp.at = "idle"
    /\ tcp.incoming_queue # <<>>
    /\ tcp' = [tcp EXCEPT
            !.incoming_queue = <<>>,
            !.latest = [after |-> tcp.reconnects,
                        from |-> {tcp.incoming_queue[k].from :
                                     k \in 1..Len(tcp.incoming_queue)}]]
    /\ tcpUnchanged

NextTcp ==
    \/ \E data \in StreamMessages : SendDataCheck(data)
    \/ SendDataPut
    \/ WorkerSend
    \/ \E data \in StreamMessages : WorkerQueue(data)
    \/ WorkerError
    \/ ReconnectDisconnect
    \/ ReconnectClear
    \/ \E ok \in BOOLEAN : ReconnectConnect(ok)
    \/ GetReceivedAfter

SpecTcp == InitTcp /\ [][NextTcp]_vars

(* C22: a value is only ever written to the host that was current when    *)
(* its send_data was called, and a get_received_data after reconnect k     *)
(* returned gives only messages of host k.                                 *)
C22_NothingCrossesReconnect ==
    /\ \A k \in 1..Len(tcp.wire_out) : tcp.wire_out[k].to = tcp.wire_out[k].epoch
    /\ tcp.latest.from \subseteq {tcp.latest.after}

----------------------------------------------------------------------------
(* LocalCommsNode / UDPVideoCommsNode.get_latest_config above a NodeClient *)
(* whose heartbeat answers carry config vectors.                           *)

MaxConfigLen == 2

ConfigValues == {1, 2}

ConfigVectors == UNION {[1..n -> ConfigValues] : n \in 0..MaxConfigLen}

(* A variant that compares the first elements only. *)
get_latest_config_head(config_cache, new_config) ==
    IF Len(new_config) # Len(config_cache)
    THEN [changed |-> TRUE, config |-> new_config, config_cache |-> new_config]
    ELSE [changed |-> new_config # <<>> /\ config_cache[1] # new_config[1],
          config |-> new_config, config_cache |-> new_config]

(* get_latest_config after get_config_changes returned new_config: the     *)
(* lengths first, then any(o != n) over zip(config_cache, new_config).     *)
get_latest_config(config_cache, new_config) ==
    IF Len(new_config) # Len(config_cache)
    THEN [changed |-> TRUE, config |-> new_config, config_cache |-> new_config]
    ELSE LET has_diff == \E k \in 1..PyMin(Len(config_cache), Len(new_config)) :
                             config_cache[k] # new_config[k]
         IN  [changed |-> has_diff, config |-> new_config, config_cache |-> new_config]

(* A heartbeat answered with a config_update (node_client.py 190-195). *)
ConfigUpdate(c, v) ==
    /\ clients' = [clients EXCEPT ![c] =
          send_heartbeat_result(@, "ok",
              [has_update |-> TRUE, actions |-> <<>>, config_update |-> PyList(v)])]
    /\ UNCHANGED <<sweepWake, registryVars, restarts, histVars, readerVars, procVars>>

GetLatestConfig(c) ==
    LET r == get_latest_config(app.config_cache, get_config_changes(clients[c]).returned)
    IN  /\ clients' = [clients EXCEPT ![c] = get_config_changes(@).cl]
        /\ app' = [app EXCEPT
              !.config_cache = r.config_cache,
              !.previous = app.latest.config,
              !.latest = [called |-> TRUE, changed |-> r.changed, config |-> r.config]]
        /\ UNCHANGED <<sweepWake, registryVars, restarts, histVars, snapshot, procVars>>

NextConfig ==
    \/ \E v \in ConfigVectors : ConfigUpdate(1, v)
    \/ GetLatestConfig(1)

SpecConfig == Init /\ [][NextConfig]_vars

(* C23: the latest call returned the client's current config vector, and   *)
(* changed is true exactly when that vector is not the one the call before *)
(* returned (the empty vector before the first call).                      *)
C23_ChangedIffDifferent ==
    app.latest.called =>
        /\ app.latest.changed = (app.latest.config # app.previous)
        /\ app.config_cache = app.latest.config

(* Two vectors of the same length that differ in the last element only,    *)
(* reported as changed.                                                    *)
C23_Witness ==
    /\ app.latest.called /\ app.latest.changed
    /\ Len(app.latest.config) = 2 /\ Len(app.previous) = 2
    /\ app.latest.config[1] = app.previous[1]
    /\ app.latest.config[2] # app.previous[2]

----------------------------------------------------------------------------
(* C24: a client that is not in connection_state "connected" has no        *)
(* node_id.                                                                *)
C24_NodeIdOnlyWhileConnected ==
    \A c \in Clients :
        clients[c].connection_state # "connected" => clients[c].node_id = NoId

----------------------------------------------------------------------------
(* A camera node that sends RGB, depth and point-cloud frames through one  *)
(* UDPRemoteConnector while time passes. The frame ids start at 0, just    *)
(* below a carry into the upper half, or at 2^32 - 1.                      *)

MaxCalls == 2

CameraLogInterval == 2

StartIds == {Halves(0), <<0, 2 ^ 16 - 1>>, <<2 ^ 16 - 1, 2 ^ 16 - 1>>}

InitCamera ==
    /\ InitRegistry
    /\ clients = [c \in Clients |-> NodeClient(IF c = 1 THEN NameA ELSE NameB)]
    /\ udp \in {[UDPRemoteConnector(1200, None, <<>>) EXCEPT
                    !.silent = silent, !.log_interval = CameraLogInterval,
                    !.rgb_frame_id = id, !.pointcloud_frame_id = id] :
                  silent \in BOOLEAN, id \in StartIds}
    /\ IdleTcp
    /\ IdleDiscovery
    /\ IdleComms

SetCameraIntrinsics ==
    /\ udp.camera_intrinsics = None
    /\ udp' = [udp EXCEPT !.camera_intrinsics = "set"]
    /\ UNCHANGED <<sweepWake, registryVars, restarts, clients, histVars, readerVars,
                   node_data_lock, pc, peerVars>>

(* One second passes. *)
UdpTick ==
    /\ udp' = [udp EXCEPT
            !.since_log = PyMin(@ + 1, udp.log_interval),
            !.since_intrinsics = PyMin(@ + 1, udp.intrinsics_interval),
            !.intrinsics.since = PyMin(@ + 1, udp.intrinsics_interval)]
    /\ UNCHANGED <<sweepWake, registryVars, restarts, clients, histVars, readerVars,
                   node_data_lock, pc, peerVars>>

(* The shortest encoding and the one that needs too many fragments. *)
CameraLengths(u, kind) ==
    {l \in Lengths(u, kind) :
        (\A m \in Lengths(u, kind) : l <= m) \/ (\A m \in Lengths(u, kind) : l >= m)}

CameraFrame(kind, length, success) ==
    /\ udp.calls < MaxCalls
    /\ udp' = send_frame(udp, kind, length, success, {})
    /\ UNCHANGED <<sweepWake, registryVars, restarts, clients, histVars, readerVars,
                   node_data_lock, pc, peerVars>>

NextCamera ==
    \/ UdpConnect
    \/ UdpDisconnect
    \/ SetCameraIntrinsics
    \/ UdpTick
    \/ \E kind \in Kinds, success \in BOOLEAN :
          \E length \in CameraLengths(udp, kind) : CameraFrame(kind, length, success)

SpecCamera == InitCamera /\ [][NextCamera]_vars

(* A step that is a send_*_frame call of a connected connector; the call's *)
(* kind is then udp'.frame.kind.                                           *)
ConnectedCall == udp'.calls = udp.calls + 1 /\ udp.connected

(* C25: after a call in which the log interval had elapsed, the frame      *)
(* counts are 0 and the encode-time lists are empty.                       *)
C25_FlushResets ==
    udp.frame.flushed =>
        /\ udp.rgb_frame_count = 0 /\ udp.pointcloud_frame_count = 0
        /\ udp.rgb_encode_times = <<>> /\ udp.pointcloud_encode_times = <<>>

(* C26: an intrinsics packet is sent only during send_rgb_frame of a       *)
(* connected connector whose intrinsics have been set, and at least        *)
(* intrinsics_interval after the packet before it.                         *)
C26_IntrinsicsPaced ==
    /\ [](/\ udp.intrinsics.count > 0 => udp.intrinsics.during = "rgb"
          /\ udp.intrinsics.count > 1 => udp.intrinsics.gap >= udp.intrinsics_interval)
    /\ [][udp'.intrinsics.count # udp.intrinsics.count =>
             /\ udp'.intrinsics.count = udp.intrinsics.count + 1
             /\ ConnectedCall /\ udp'.frame.kind = "rgb"
             /\ udp.camera_intrinsics # None
             /\ udp'.intrinsics.attempts # <<>>]_vars

(* Two intrinsics packets have been sent. *)
C26_Witness == udp.intrinsics.count >= 2

(* The ids of the depth and point-cloud frames sent so far. *)
SharedIds == SelectSeq(udp.sent_ids, LAMBDA e : e.kind # "rgb")

(* C27: an RGB call leaves the shared counter alone and advances its own   *)
(* when the frame was sent; a depth or point-cloud call leaves the RGB     *)
(* counter alone and advances the shared one; no two depth or point-cloud  *)
(* frames sent carry the same frame_id.                                    *)
C27_CountersIndependent ==
    /\ [](\A i, j \in 1..Len(SharedIds) :
              i # j => SharedIds[i].frame_id # SharedIds[j].frame_id)
    /\ [][/\ ConnectedCall /\ udp'.frame.kind = "rgb" =>
                /\ udp'.pointcloud_frame_id = udp.pointcloud_frame_id
                /\ udp'.frame.packets # <<>> => udp'.rgb_frame_id # udp.rgb_frame_id
          /\ ConnectedCall /\ udp'.frame.kind # "rgb" =>
                /\ udp'.rgb_frame_id = udp.rgb_frame_id
                /\ udp'.frame.packets # <<>> =>
                       udp'.pointcloud_frame_id # udp.pointcloud_frame_id
          /\ udp'.calls = udp.calls + 1 /\ ~udp.connected =>
                /\ udp'.rgb_frame_id = udp.rgb_frame_id
                /\ udp'.pointcloud_frame_id = udp.pointcloud_frame_id]_vars

(* A depth frame and a point-cloud frame have been sent, in either order. *)
C27_Witness ==
    /\ Len(SharedIds) >= 2
    /\ SharedIds[1].kind # SharedIds[2].kind

(* old + 1 modulo 2^32 on the two halves. *)
Succ32(id) ==
    CASE id = <<2 ^ 16 - 1, 2 ^ 16 - 1>> -> <<0, 0>>
      [] id[2] = 2 ^ 16 - 1 /\ id[1] < 2 ^ 16 - 1 -> <<id[1] + 1, 0>>
      [] OTHER -> <<id[1], id[2] + 1>>

(* C28: both counters always fit 32 bits, and a call that sent a frame     *)
(* leaves its counter at old + 1 modulo 2^32.                              *)
C28_FrameIdWraps ==
    /\ [](Fits("I", udp.rgb_frame_id) /\ Fits("I", udp.pointcloud_frame_id))
    /\ [][ConnectedCall /\ udp'.frame.sent /\ udp'.frame.raised = "None" =>
             /\ FrameId(udp', udp'.frame.kind) = Succ32(FrameId(udp, udp'.frame.kind))
             /\ \A k \in 1..Len(udp'.frame.packets) :
                   udp'.frame.packets[k].frame_id = FrameId(udp, udp'.frame.kind)]_vars

(* A frame was sent with frame_id 2^32 - 1 and its counter is 0 now. *)
C28_Witness ==
    \E k \in 1..Len(udp.sent_ids) :
        /\ udp.sent_ids[k].frame_id = <<2 ^ 16 - 1, 2 ^ 16 - 1>>
        /\ FrameId(udp, udp.sent_ids[k].kind) = <<0, 0>>

(* The latest call of a connected connector failed to encode its frame. *)
EncodeFailed(u) == "kind" \in DOMAIN u.frame /\ ~u.frame.encoded

(* C29: a call whose RGB or depth encoding fails sends no packet and       *)
(* leaves frame counts, encode-time samples and frame ids as they were;    *)
(* the next call that encodes its frame uses the frame id the failed one   *)
(* would have used.                                                        *)
C29_FailedEncodingDropsFrame ==
    [][/\ (ConnectedCall /\ EncodeFailed(udp') /\ udp'.frame.kind # "pointcloud") =>
             /\ udp'.frame.packets = <<>> /\ udp'.attempts = <<>>
             /\ udp'.sent_ids = udp.sent_ids
             /\ udp'.rgb_frame_count = udp.rgb_frame_count
             /\ udp'.pointcloud_frame_count = udp.pointcloud_frame_count
             /\ udp'.rgb_encode_times = udp.rgb_encode_times
             /\ udp'.pointcloud_encode_times = udp.pointcloud_encode_times
             /\ udp'.rgb_frame_id = udp.rgb_frame_id
             /\ udp'.pointcloud_frame_id = udp.pointcloud_frame_id
       /\ (ConnectedCall /\ EncodeFailed(udp) /\ udp.frame.kind # "pointcloud"
             /\ udp'.frame.encoded
             /\ (udp'.frame.kind = "rgb") = (udp.frame.kind = "rgb")) =>
             /\ udp'.frame.sent
             /\ udp'.frame.frame_id = udp.frame.frame_id]_vars

(* An RGB frame whose encoding failed, after a frame that was counted. *)
C29_Witness ==
    /\ EncodeFailed(udp) /\ udp.frame.kind = "rgb"
    /\ udp.rgb_frame_count > 0

----------------------------------------------------------------------------
(* The discovery listener receiving announcements while another thread     *)
(* calls get_remote. A thread holds the lock over the steps of its `with`  *)
(* block.                                                                  *)

MaxDatagrams == 3

Datagrams ==
    {Announcement({"service", "ip", "ports"}, "XR Quest", "ip_1", "ports_1"),
     Announcement({"service", "ip", "ports"}, "XR Quest", "ip_2", "ports_2"),
     Announcement({"service", "ip", "ports"}, "Other", "ip_3", "ports_3"),
     Announcement({"ip", "ports"}, None, "ip_4", "ports_4"),
     Announcement({"service", "ports"}, "XR Quest", None, "ports_5")}

InitDiscovery ==
    /\ InitRegistry
    /\ clients = [c \in Clients |-> NodeClient(IF c = 1 THEN NameA ELSE NameB)]
    /\ IdleUdp
    /\ IdleTcp
    /\ IdleDiscovery
    /\ IdleComms

discoveryUnchanged ==
    UNCHANGED <<sweepWake, registryVars, restarts, clients, histVars, readerVars,
                node_data_lock, pc, udp, tcp, nodeVars>>

(* Lines 31-36: one datagram is received and parsed; the worker goes on to *)
(* the `with` block when the service matches and both keys are there.      *)
DiscoveryRecv(announcement) ==
    /\ discovery.running /\ discovery.worker.at = "recvfrom"
    /\ discovery.received < MaxDatagrams
    /\ discovery' = [discovery EXCEPT
            !.received = @ + 1,
            !.worker = IF /\ announcement_matches(announcement, discovery.service_name)
                          /\ ~announcement_raises(announcement)
                       THEN [at |-> "with_lock", announcement |-> announcement]
                       ELSE @]
    /\ discoveryUnchanged

(* Lines 38-43: the record is replaced under the lock. *)
DiscoveryStore ==
    /\ discovery.worker.at = "with_lock"
    /\ lock_acquire(discovery.lock, "worker").ok
    /\ discovery' = [discovery EXCEPT
            !.latest_service = [ip |-> discovery.worker.announcement.ip,
                                ports |-> discovery.worker.announcement.ports,
                                last_seen |-> discovery.received],
            !.stored = discovery.worker.announcement,
            !.lock = lock_release(lock_acquire(discovery.lock, "worker").lock, "worker"),
            !.worker = [at |-> "recvfrom", announcement |-> NoAnnouncement]]
    /\ discoveryUnchanged

(* get_remote, lines 75-78: the lock is taken; without a record the call   *)
(* returns None, otherwise "ip" is read.                                   *)
GetRemoteEnter ==
    /\ discovery.reader.at = "idle"
    /\ lock_acquire(discovery.lock, "reader").ok
    /\ IF discovery.latest_service = NoService
       THEN discovery' = [discovery EXCEPT
                !.lock = lock_release(lock_acquire(discovery.lock, "reader").lock, "reader"),
                !.got = [called |-> TRUE, remote |-> NoRemote]]
       ELSE discovery' = [discovery EXCEPT
                !.lock = lock_acquire(discovery.lock, "reader").lock,
                !.reader = [at |-> "ip_read", ip |-> discovery.latest_service.ip]]
    /\ discoveryUnchanged

(* get_remote, lines 79-80: "ports" is read, the lock released. *)
GetRemoteReturn ==
    /\ discovery.reader.at = "ip_read"
    /\ discovery' = [discovery EXCEPT
            !.lock = lock_release(@, "reader"),
            !.reader = [at |-> "idle", ip |-> None],
            !.got = [called |-> TRUE,
                     remote |-> [remote_ip |-> discovery.reader.ip,
                                 remote_ports |-> discovery.latest_service.ports]]]
    /\ discoveryUnchanged

NextDiscovery ==
    \/ \E announcement \in Datagrams : DiscoveryRecv(announcement)
    \/ DiscoveryStore
    \/ GetRemoteEnter
    \/ GetRemoteReturn

SpecDiscovery == InitDiscovery /\ [][NextDiscovery]_vars

(* What get_remote returns for a record. *)
RemoteOf(record) ==
    IF record = NoService THEN NoRemote
    ELSE [remote_ip |-> record.ip, remote_ports |-> record.ports]

(* C30: the record is None or the ip and ports of the latest announcement  *)
(* of the configured service that was stored; a datagram of another        *)
(* service, or without a service, never changes it; and get_remote returns *)
(* the record as it is when the call ends, ip and ports of one             *)
(* announcement.                                                           *)
C30_SingleRecordAtomic ==
    /\ [](/\ discovery.latest_service = NoService => discovery.stored = NoAnnouncement
          /\ discovery.latest_service # NoService =>
                /\ discovery.stored \in Datagrams
                /\ discovery.stored.service = discovery.service_name
                /\ discovery.latest_service.ip = discovery.stored.ip
                /\ discovery.latest_service.ports = discovery.stored.ports
          /\ discovery.got.remote # NoRemote =>
                \E a \in Datagrams :
                    /\ a.service = discovery.service_name
                    /\ discovery.got.remote = [remote_ip |-> a.ip, remote_ports |-> a.ports])
    /\ [][/\ discovery'.got # discovery.got =>
                discovery'.got.remote = RemoteOf(discovery'.latest_service)
          /\ discovery'.latest_service # discovery.latest_service =>
                /\ discovery.worker.at = "with_lock"
                /\ discovery'.latest_service.last_seen = discovery.received
                /\ RemoteOf(discovery'.latest_service)
                      = [remote_ip |-> discovery.worker.announcement.ip,
                         remote_ports |-> discovery.worker.announcement.ports]]_vars

(* get_remote has returned the record written for the third datagram. *)
C30_Witness ==
    /\ discovery.got.remote # NoRemote
    /\ discovery.got.remote = RemoteOf(discovery.latest_service)
    /\ discovery.latest_service.last_seen = 3
    /\ discovery.received = 3

(* ---------------------------------------------------------------------- *)
(* The point cloud encoding of send_pointcloud_frame.                      *)
(* ---------------------------------------------------------------------- *)

MaxCloud == 2

INT16_MIN == 0 - 32768
INT16_MAX == 32767

(* Truncation toward zero, as a C cast of a float to an integer does. *)
Trunc(a, b) == IF a >= 0 THEN a \div b ELSE 0 - ((0 - a) \div b)

(* astype(np.int16) of a float that holds x / 1000: inside the int16 range  *)
(* the value truncated toward zero; outside it the result depends on the   *)
(* build, which either keeps the low 16 bits or saturates.                 *)
astype_int16(x, outside) ==
    LET v == Trunc(x, 1000)
    IN  IF v >= INT16_MIN /\ v <= INT16_MAX THEN v
        ELSE IF outside = "wrap" THEN ((v - INT16_MIN) % 65536) + INT16_MIN
        ELSE IF v < 0 THEN INT16_MIN ELSE INT16_MAX

astype_uint8(c) == c % 256

(* A variant that writes the low byte first: C31's formula must tell it    *)
(* from astype('>i2').                                                     *)
int16_le(v) == LET w == v % 65536 IN <<w % 256, w \div 256>>

(* astype('>i2').tobytes() of one int16: two's complement, high byte first. *)
int16_be(v) == LET w == v % 65536 IN <<w \div 256, w % 256>>

(* The 9 bytes of one point: 6 position bytes, then 3 colour bytes. A point *)
(* is given by its position in micrometres (metres * 10^6, so that          *)
(* positions_m * 1000 is position / 1000) and its colour.                   *)
point_bytes(point, outside) ==
    int16_be(astype_int16(point.pos[1], outside))
       \o int16_be(astype_int16(point.pos[2], outside))
       \o int16_be(astype_int16(point.pos[3], outside))
       \o <<astype_uint8(point.col[1]), astype_uint8(point.col[2]),
            astype_uint8(point.col[3])>>

RECURSIVE binary_data(_, _)
binary_data(pointcloud_data, outside) ==
    IF pointcloud_data = <<>> THEN <<>>
    ELSE point_bytes(Head(pointcloud_data), outside)
            \o binary_data(Tail(pointcloud_data), outside)

(* send_pointcloud_frame of object u: nothing when u is not connected or   *)
(* the cloud is empty, else the frame of the interleaved bytes.            *)
send_pointcloud_frame(u, pointcloud_data, outside, failing) ==
    LET bytes == binary_data(pointcloud_data, outside)
    IN  IF u.connected /\ Len(pointcloud_data) = 0
        THEN [u EXCEPT !.calls = @ + 1]
        ELSE send_encoded(u, "pointcloud", pointcloud_data,
                          [len |-> Len(bytes), bytes |-> bytes], TRUE, failing)

(* Positions in micrometres and colours: the example of the claim, the     *)
(* ends of the int16 range, values between two millimetres, and a point    *)
(* 40 m away.                                                              *)
CloudPoints ==
    {[pos |-> <<1234000, 0 - 500000, 2000000>>, col |-> <<10, 20, 30>>],
     [pos |-> <<0 - 32768000, 32767000, 0>>, col |-> <<0, 255, 128>>],
     [pos |-> <<1999, 0 - 1999, 0 - 1>>, col |-> <<1, 2, 3>>],
     [pos |-> <<40000000, 0 - 40000000, 5000>>, col |-> <<255, 255, 255>>]}

Clouds == UNION {[1..n -> CloudPoints] : n \in 0..MaxCloud}

InitPointcloud ==
    /\ InitRegistry
    /\ clients = [c \in Clients |-> NodeClient(IF c = 1 THEN NameA ELSE NameB)]
    /\ udp \in {UDPRemoteConnector(chunk_size, None, <<>>) :
                  chunk_size \in {POINTCLOUD_HEADER_SIZE + 1, POINTCLOUD_HEADER_SIZE + 4,
                                  POINTCLOUD_HEADER_SIZE + 9, POINTCLOUD_HEADER_SIZE + 18}}
    /\ IdleTcp
    /\ IdleDiscovery
    /\ IdleComms

SendPointcloud(pointcloud_data, outside) ==
    /\ udp.calls < MaxFrames
    /\ udp' = send_pointcloud_frame(udp, pointcloud_data, outside, {})
    /\ UNCHANGED <<sweepWake, registryVars, restarts, clients, histVars, readerVars,
                   node_data_lock, pc, peerVars>>

NextPointcloud ==
    \/ UdpConnect
    \/ \E pointcloud_data \in Clouds, outside \in {"wrap", "saturate"} :
          SendPointcloud(pointcloud_data, outside)

SpecPointcloud == InitPointcloud /\ [][NextPointcloud]_vars

(* The receiver's reading of 9 bytes: three big-endian signed 16-bit       *)
(* integers and three bytes.                                               *)
Signed16(hi, lo) == IF hi >= 128 THEN (hi * 256 + lo) - 65536 ELSE hi * 256 + lo

DecodePoint(b) ==
    [mm |-> <<Signed16(b[1], b[2]), Signed16(b[3], b[4]), Signed16(b[5], b[6])>>,
     col |-> <<b[7], b[8], b[9]>>]

Millimetres(point) == [k \in 1..3 |-> Trunc(point.pos[k], 1000)]

InInt16(point) ==
    \A k \in 1..3 : Millimetres(point)[k] >= INT16_MIN /\ Millimetres(point)[k] <= INT16_MAX

PointcloudSent ==
    /\ udp.frame.sent
    /\ udp.frame.kind = "pointcloud"
    /\ udp.frame.raised = "None"

(* C31: the payload of a point cloud frame has 9 bytes per point, every    *)
(* fragment header carries the point count, and the 9 bytes of a point     *)
(* whose millimetre values are within the int16 range decode to the same   *)
(* millimetre integers and the same colour.                                *)
C31_PointsRoundTrip ==
    PointcloudSent =>
        LET cloud == udp.frame.input
            payload == Concat(udp.frame.packets)
        IN  /\ Len(payload) = 9 * Len(cloud)
            /\ \A k \in 1..Len(udp.frame.packets) :
                  udp.frame.packets[k].header[5] = Halves(Len(cloud))
            /\ \A i \in 1..Len(cloud) :
                  InInt16(cloud[i]) =>
                      DecodePoint(SubSeq(payload, 9 * (i - 1) + 1, 9 * i))
                         = [mm |-> Millimetres(cloud[i]), col |-> cloud[i].col]

(* A cloud whose second point is the claim's example has been sent in      *)
(* fragments that cut through the points, and the example's 9 bytes        *)
(* decode to (1234, -500, 2000) and (10, 20, 30).                          *)
C31_Witness ==
    /\ PointcloudSent
    /\ Len(udp.frame.input) = 2
    /\ Len(udp.frame.packets) > 2
    /\ udp.chunk_size - POINTCLOUD_HEADER_SIZE = 4
    /\ DecodePoint(SubSeq(Concat(udp.frame.packets), 10, 18))
          = [mm |-> <<1234, 0 - 500, 2000>>, col |-> <<10, 20, 30>>]

(* ---------------------------------------------------------------------- *)
(* The heartbeat thread of a running NodeClient, scheduled fairly.         *)
(* ---------------------------------------------------------------------- *)

LoopStep == HeartbeatStep(1, Outcomes) \/ ReconnectStep(1, Outcomes)

(* The daemon thread runs its loop again after every sleep; time passes    *)
(* and cleanup_task wakes after every sleep, so that a row of the model's  *)
(* table that gets no heartbeat becomes dead and a Connect finds a row.    *)
SpecLoop ==
    Init /\ [][NextClient]_vars /\ WF_vars(LoopStep) /\ WF_vars(Tick) /\ WF_vars(Sweep)

(* A step in which an exchange of the client fails: a heartbeat that is    *)
(* counted as failed, a Connect of start() that sends the client into      *)
(* reconnection mode, or a Connect of the loop that reaches the registry   *)
(* while its answer does not reach the client. A Connect that is lost      *)
(* leaves every variable as it is.                                         *)
ExchangeFailed ==
    \/ clients'[1].consecutive_failures > clients[1].consecutive_failures
    \/ /\ clients[1].connection_state # "reconnecting"
       /\ clients'[1].connection_state = "reconnecting"
    \/ /\ clients[1].connection_state = "reconnecting"
       /\ clients' = clients
       /\ sweepWake' = sweepWake
       /\ restarts' = restarts
       /\ node_registry' # node_registry

AnsweredFromSomePointOn == <>[][~ExchangeFailed]_vars

(* C32: if from some point on no exchange with the registry fails, then    *)
(* after any state in which the running client is reconnecting there is a  *)
(* point from which the client, while it runs, is connected with           *)
(* is_connected() true.                                                    *)
C32_ReconnectingRecovers ==
    AnsweredFromSomePointOn =>
        [](clients[1].running /\ clients[1].connection_state = "reconnecting"
              => <>[](clients[1].running => is_connected(clients[1])))

(* The running client is connected under the second id of its name: it was *)
(* connected before, or its first Connect was answered late, and the loop's *)
(* Connect succeeded.                                                      *)
C32_Witness ==
    /\ clients[1].running
    /\ is_connected(clients[1])
    /\ clients[1].node_id = MkId(NameA, 2)

(* ---------------------------------------------------------------------- *)
(* LocalCommsNode: the upkeep thread, the NodeClient's discovery cache and *)
(* the registry's remote_data.                                             *)
(* ---------------------------------------------------------------------- *)

PyDict(d) == [t |-> "dict", v |-> d]

(* What the orchestrator's main loop hands to update_remote_data: None, or *)
(* get_remote()'s dict, whose ports may or may not name the node's         *)
(* service_port.                                                           *)
RemoteDatas ==
    {PyNone,
     PyDict([remote_ip |-> "ip_1", remote_ports |-> [echo |-> "5000"]]),
     PyDict([remote_ip |-> "ip_2", remote_ports |-> [echo |-> "5001"]]),
     PyDict([remote_ip |-> "ip_1", remote_ports |-> [video |-> "6000"]])}

InitComms ==
    /\ InitRegistry
    /\ clients = [c \in Clients |-> NodeClient(IF c = 1 THEN NameA ELSE NameB)]
    /\ IdleUdp
    /\ IdleTcp
    /\ IdleDiscovery
    /\ IdleComms

commsUnchanged ==
    UNCHANGED <<sweepWake, registryVars, restarts, histVars, readerVars,
                node_data_lock, pc, udp, discovery>>

update_remote_data(d) ==
    /\ remote_data' = d
    /\ UNCHANGED <<clients, tcp, comms>>
    /\ commsUnchanged

(* The peer starts or stops listening at the discovered address. *)
PeerListens(on) ==
    /\ tcp.accepting # on
    /\ tcp' = [tcp EXCEPT !.accepting = on]
    /\ UNCHANGED <<clients, remote_data, comms>>
    /\ commsUnchanged

(* JSONRemoteConnector.disconnect and reconnect, as one call: connect()    *)
(* succeeds when the peer accepts.                                         *)
disconnect(t) ==
    [t EXCEPT !.running = FALSE, !.connected = FALSE,
              !.worker_thread = IF @ = "none" THEN @ ELSE "ended"]

reconnect(t, host, port) ==
    LET d == [disconnect(t) EXCEPT !.incoming_queue = <<>>, !.outgoing_queue = <<>>,
                                   !.host = host, !.port = port]
    IN  IF t.accepting
        THEN [d EXCEPT !.connected = TRUE, !.running = TRUE, !.worker_thread = "alive"]
        ELSE d

(* The worker's lines 122-125 in a connected connector. *)
ConnectionLost ==
    /\ tcp.running /\ tcp.worker_thread = "alive"
    /\ tcp' = [tcp EXCEPT !.connected = FALSE, !.worker_thread = "ended"]
    /\ UNCHANGED <<clients, remote_data, comms>>
    /\ commsUnchanged

(* One pass of LocalCommsNode._upkeep_thread, lines 62-80. *)
upkeep_pass(node, t, remote_discovery) ==
    LET remote_ip == dict_get(remote_discovery, "remote_ip", None)
        remote_ports == dict_get(remote_discovery, "remote_ports", <<>>)
        echo_port == dict_get(remote_ports, node.service_port, None)
        seen == [node EXCEPT !.seen = remote_discovery, !.emptied = FALSE,
                             !.attempted = FALSE]
    IN  IF DOMAIN remote_discovery = {}
        THEN IF node.disconnect_on_empty /\ t.connected
             THEN [comms |-> [seen EXCEPT !.current_remote_ip = None,
                                          !.current_remote_port = None,
                                          !.emptied = TRUE],
                   tcp |-> disconnect(t)]
             ELSE [comms |-> seen, tcp |-> t]
        ELSE IF /\ DOMAIN remote_ports # {}
                /\ echo_port # None
                /\ (remote_ip # node.current_remote_ip \/ echo_port # node.current_remote_port)
             THEN [comms |-> [seen EXCEPT !.current_remote_ip = remote_ip,
                                          !.current_remote_port = echo_port,
                                          !.attempted = TRUE],
                   tcp |-> reconnect(t, remote_ip, echo_port)]
             ELSE [comms |-> seen, tcp |-> t]

UpkeepPass ==
    LET r == upkeep_pass(comms, tcp, clients[1].remote_discovery_cache)
    IN  /\ comms' = [r.comms EXCEPT !.unannounced = (remote_data = PyNone)]
        /\ tcp' = r.tcp
        /\ UNCHANGED <<clients, remote_data>>
        /\ commsUnchanged

ClientOutcomes == {"ok", "lost"}

ClientLoop == HeartbeatStep(1, ClientOutcomes) \/ ReconnectStep(1, ClientOutcomes)

NextComms ==
    \/ Start(1, ClientOutcomes)
    \/ HeartbeatStep(1, ClientOutcomes)
    \/ ReconnectStep(1, ClientOutcomes)
    \/ \E d \in RemoteDatas : update_remote_data(d)
    \/ \E on \in BOOLEAN : PeerListens(on)
    \/ ConnectionLost
    \/ UpkeepPass

(* The upkeep thread and the heartbeat thread run their loops again after  *)
(* every sleep.                                                            *)
SpecComms == InitComms /\ [][NextComms]_vars /\ WF_vars(UpkeepPass) /\ WF_vars(ClientLoop)

NamesPort(remote_discovery) ==
    dict_get(dict_get(remote_discovery, "remote_ports", <<>>), comms.service_port, None) # None

(* C33 as stated: if from some point on the discovery cache names the      *)
(* node's port and no longer changes, and the peer accepts, then the       *)
(* connector is connected again after every failure or loss.               *)
C33_RetriesUntilConnected ==
    (/\ <>[](NamesPort(clients[1].remote_discovery_cache) /\ tcp.accepting)
     /\ <>[][UNCHANGED clients[1].remote_discovery_cache]_vars)
        => []<>tcp.connected

(* ---------------------------------------------------------------------- *)
(* One NodeClient whose requests are all answered in time, its owner's     *)
(* schema updates and reads, and the orchestrator's outbound messages.     *)
(* ---------------------------------------------------------------------- *)

NextPush ==
    \/ Start(1, {"ok"})
    \/ HeartbeatStep(1, {"ok"})
    \/ UpdateSchemas(1, {"ok"})
    \/ AddOutbound
    \/ GetPendingActions(1)

SpecPush == Init /\ [][NextPush]_vars

(* The actions the registry holds for the client's node. *)
PendingFor(cache, id) == IF id \in DOMAIN cache THEN cache[id][2] ELSE <<>>

(* C34 as stated: a step in which the registry clears the pending actions  *)
(* of the client's node, on a request of the client whose answer arrives,  *)
(* appends those actions to the client's action list.                      *)
C34_DrainedActionsReachApplication ==
    [][LET id == clients[1].node_id
       IN  (/\ PendingFor(node_outbound_cache, id) # <<>>
            /\ PendingFor(node_outbound_cache', id) = <<>>)
              => clients'[1].action_list
                    = clients[1].action_list \o PendingFor(node_outbound_cache, id)]_vars

(* The same for the heartbeat thread's requests alone. *)
C34_HeartbeatDelivers ==
    [][LET id == clients[1].node_id
       IN  (/\ HeartbeatStep(1, {"ok"})
            /\ PendingFor(node_outbound_cache, id) # <<>>
            /\ PendingFor(node_outbound_cache', id) = <<>>)
              => clients'[1].action_list
                    = clients[1].action_list \o PendingFor(node_outbound_cache, id)]_vars

(* ---------------------------------------------------------------------- *)
(* A Connect that reuses a dead node's id, and the outbound cache.         *)
(* ---------------------------------------------------------------------- *)

MapDrop(f, k) == [x \in DOMAIN f \ {k} |-> f[x]]

(* Connect, with the history of the reuse: what the cache held for the id  *)
(* when the Connect took it from a dead node.                              *)
ReusingConnect(name) ==
    /\ ConnectCall(name)
    /\ pushes' = IF ConnectAnswer(name).fresh THEN pushes
                 ELSE [pushes EXCEPT
                          !.reused = MapPut(@, ConnectAnswer(name).node_id,
                                            MapGet(node_outbound_cache,
                                                   ConnectAnswer(name).node_id,
                                                   <<PyList(<<>>), <<>>>>))]

(* Heartbeat, with the history of the first answer after a reuse. *)
HeartbeatAfterReuse(id) ==
    LET r == HeartbeatAnswer(id)
    IN  /\ HeartbeatCall(id)
        /\ pushes' = IF r.message_type = "heartbeat_response" /\ id \in DOMAIN pushes.reused
                     THEN [HeartbeatPushes(id) EXCEPT
                              !.reused = MapDrop(@, id),
                              !.first = MapPut(@, id, [cached |-> pushes.reused[id],
                                                       config_update |-> r.config_update,
                                                       actions |-> r.actions])]
                     ELSE HeartbeatPushes(id)

MaxReuseNodes == 1
MaxReusePushes == 1

NextReuse ==
    \/ /\ DeadWithName(node_registry, NameA) # {} \/ Len(node_registry) < MaxReuseNodes
       /\ ReusingConnect(NameA)
    \/ \E id \in RequestIds : Disconnect(id)
    \/ \E id \in RequestIds : HeartbeatAfterReuse(id)
    \/ /\ pushes.n < MaxReusePushes
       /\ \E id \in Ids(node_registry), config \in {PyNone, PyList(<<1>>)},
             actions \in {PyNone, PyList(<<"A">>)} :
               AddOutboundCall(id, config, actions)

SpecReuse == Init /\ [][NextReuse]_vars

(* C35: a Connect that reuses a dead id leaves the table with a new Node   *)
(* under that id and the outbound cache as it was, and the first Heartbeat *)
(* answered after it returns the cached config and every action given     *)
(* since the last drain, before or after the Connect.                      *)
C35_ReuseKeepsOutboundCache ==
    /\ [][(ReusingConnect(NameA) /\ ~ConnectAnswer(NameA).fresh) =>
             /\ Lookup(node_registry', ConnectAnswer(NameA).node_id)
                   = Node(NameA, ConnectAnswer(NameA).node_id, now)
             /\ node_outbound_cache' = node_outbound_cache]_vars
    /\ [][\A id \in DOMAIN pushes.reused :
             (HeartbeatAfterReuse(id) /\ id \in Ids(node_registry)) =>
                /\ pushes'.first[id].actions = MapGet(pushes.acts, id, <<>>)
                /\ SubSeq(pushes'.first[id].actions, 1, Len(pushes.reused[id][2]))
                      = pushes.reused[id][2]
                /\ id \in DOMAIN node_outbound_cache =>
                      pushes'.first[id].config_update = node_outbound_cache[id][1]]_vars

(* The first Heartbeat after a Connect that reused a dead id has returned  *)
(* a config and an action that were cached when the Connect was served.    *)
C35_Witness ==
    \E id \in DOMAIN pushes.first :
        /\ pushes.first[id].cached[2] # <<>>
        /\ Truthy(pushes.first[id].cached[1])
        /\ pushes.first[id].actions = pushes.first[id].cached[2]
        /\ pushes.first[id].config_update = pushes.first[id].cached[1]

(* ---------------------------------------------------------------------- *)
(* The status flag between two snapshots of the orchestrator's main loop.  *)
(* ---------------------------------------------------------------------- *)

NextStatus ==
    \/ /\ DeadWithName(node_registry, NameA) # {} \/ Len(node_registry) < MaxReuseNodes
       /\ Connect(NameA)
    \/ \E id \in Ids(node_registry) : Disconnect(id)
    \/ \E id \in Ids(node_registry) : Heartbeat(id)
    \/ Sweep
    \/ Tick
    \/ GetNodeRegistry

SpecStatus == Init /\ [][NextStatus]_vars

(* C36 as stated: a node whose life_status.status in a snapshot differs    *)
(* from the one in the snapshot before has change_flags.status_update true *)
(* in the later snapshot.                                                  *)
C36_StatusChangeSignalled ==
    [][(GetNodeRegistry /\ snapshot.taken) =>
          \A id \in Ids(snapshot.nodes) :
              Lookup(snapshot'.nodes, id).life_status.status
                    # Lookup(snapshot.nodes, id).life_status.status
                 => Lookup(snapshot'.nodes, id).status_update = "true"]_vars

(* The same for the changes made by Disconnect and by the sweep: a node    *)
(* that was not replaced by a Connect since the snapshot before.           *)
C36_SignalledUnlessReplaced ==
    [][(GetNodeRegistry /\ snapshot.taken) =>
          \A id \in Ids(snapshot.nodes) :
              (/\ Lookup(snapshot'.nodes, id).life_status.status
                     # Lookup(snapshot.nodes, id).life_status.status
               /\ Lookup(snapshot'.nodes, id).status_update # "absent")
                 => Lookup(snapshot'.nodes, id).status_update = "true"]_vars

----------------------------------------------------------------------------
(* A frame sent while the upkeep thread disconnects or reconnects. The     *)
(* sending thread is followed statement by statement: the is_connected     *)
(* test of send_depth_frame, the one of _send_fragmented_frame, one        *)
(* _send_packet_to_destinations per fragment, and the increment of the     *)
(* frame id. connect, disconnect and each packet's sendto calls hold       *)
(* _socket_lock, so each is one step; is_connected takes no lock.          *)
MaxSendingFrames == 2

Endpoints == {"quest_1", "quest_2"}

sendingUnchanged ==
    UNCHANGED <<sweepWake, registryVars, restarts, clients, histVars, readerVars,
                node_data_lock, pc, peerVars>>

InitSending ==
    /\ InitRegistry
    /\ clients = [c \in Clients |-> NodeClient(IF c = 1 THEN NameA ELSE NameB)]
    /\ udp \in {UDPRemoteConnector(chunk_size, None, <<>>) :
                  chunk_size \in {HEADER_SIZE + 1, HEADER_SIZE + 2}}
    /\ IdleTcp
    /\ IdleDiscovery
    /\ IdleComms

(* connect and disconnect of the connector, each under _socket_lock. *)
connect(u, endpoint) == [u EXCEPT !.connected = TRUE, !.remote = endpoint]

disconnect_udp(u) == [u EXCEPT !.connected = FALSE]

(* Whether an upkeep call changes the connector under a frame being sent.  *)
Disturbed(u) ==
    IF u.sending.active THEN [u EXCEPT !.sending.disturbed = TRUE] ELSE u

(* The upkeep thread's disconnect on an empty discovery record. *)
UpkeepDisconnect ==
    /\ udp.reconnecting = None
    /\ udp.connected
    /\ udp' = Disturbed(disconnect_udp(udp))
    /\ sendingUnchanged

(* reconnect: disconnect() ... *)
UdpReconnectDisconnect(endpoint) ==
    /\ udp.reconnecting = None
    /\ udp.remote # endpoint \/ ~udp.connected
    /\ udp' = [Disturbed(disconnect_udp(udp)) EXCEPT !.reconnecting = endpoint]
    /\ sendingUnchanged

(* ... then connect(remote_ip, remote_port). *)
UdpReconnectConnect ==
    /\ udp.reconnecting # None
    /\ udp' = [Disturbed(connect(udp, udp.reconnecting)) EXCEPT !.reconnecting = None]
    /\ sendingUnchanged

(* send_depth_frame up to the call of _send_fragmented_frame: it returns   *)
(* at once when is_connected() is false.                                   *)
SendDepthBegin(length) ==
    /\ ~udp.sending.active
    /\ udp.calls < MaxSendingFrames
    /\ udp' = IF ~udp.connected
              THEN [udp EXCEPT !.calls = @ + 1]
              ELSE [udp EXCEPT
                      !.calls = @ + 1,
                      !.sending = [active |-> TRUE, stage |-> "encoded", disturbed |-> FALSE,
                                   data |-> Data(length),
                                   frame_id |-> FrameId(udp, "depth"),
                                   packets |-> <<>>, next |-> 1, handed |-> <<>>]]
    /\ sendingUnchanged

(* The return of send_depth_frame after _send_fragmented_frame: the frame  *)
(* id is incremented however the fragmenting ended.                        *)
frame_done(u, entered) ==
    [advance_frame_id(u, "depth") EXCEPT
        !.sending = [active |-> FALSE],
        !.frame = [sent |-> TRUE, encoded |-> TRUE, flushed |-> FALSE, kind |-> "depth",
                   length |-> u.sending.data.len, frame_id |-> u.sending.frame_id,
                   raised |-> "None", entered |-> entered,
                   disturbed |-> u.sending.disturbed,
                   packets |-> u.sending.packets, handed |-> u.sending.handed]]

(* _send_fragmented_frame up to its loop: it returns when is_connected()   *)
(* is false by now.                                                        *)
FragmentBegin ==
    /\ udp.sending.active
    /\ udp.sending.stage = "encoded"
    /\ udp' = IF ~udp.connected
              THEN frame_done(udp, FALSE)
              ELSE [udp EXCEPT
                      !.sending.stage = "loop",
                      !.sending.packets =
                          send_fragmented(udp.sending.data, udp.chunk_size,
                                          HeaderSize("depth"), HeaderFormat("depth"),
                                          FrameType("depth"), udp.sending.frame_id).packets]
    /\ sendingUnchanged

(* One pass of the loop: _send_packet_to_destinations sends the packet to  *)
(* (remote_ip, remote_port) as they are now, or sends nothing.             *)
SendPacket ==
    /\ udp.sending.active
    /\ udp.sending.stage = "loop"
    /\ udp.sending.next <= Len(udp.sending.packets)
    /\ udp' = [udp EXCEPT
                 !.sending.next = @ + 1,
                 !.sending.handed =
                     IF udp.connected
                     THEN Append(@, [frag_seq |-> udp.sending.packets[udp.sending.next].frag_seq,
                                     dest |-> udp.remote])
                     ELSE @]
    /\ sendingUnchanged

SendDepthEnd ==
    /\ udp.sending.active
    /\ udp.sending.stage = "loop"
    /\ udp.sending.next > Len(udp.sending.packets)
    /\ udp' = frame_done(udp, TRUE)
    /\ sendingUnchanged

NextSending ==
    \/ UpkeepDisconnect
    \/ \E endpoint \in Endpoints : UdpReconnectDisconnect(endpoint)
    \/ UdpReconnectConnect
    \/ \E length \in 1..MaxLen : SendDepthBegin(length)
    \/ FragmentBegin
    \/ SendPacket
    \/ SendDepthEnd

SpecSending == InitSending /\ [][NextSending]_vars

(* The fragments the frame has by its length and the chunk size. *)
FragmentsOf(f) == Ceil(f.length, udp.chunk_size - HeaderSize(f.kind))

HandedWhole(f) ==
    /\ Len(f.handed) = FragmentsOf(f)
    /\ \A i, j \in 1..Len(f.handed) : f.handed[i].dest = f.handed[j].dest

(* C37: a frame whose frame id was consumed had every fragment handed to   *)
(* the socket, all for one primary destination, whatever the upkeep thread *)
(* called while it was sent.                                               *)
C37_FrameWholeToOneDestination ==
    udp.frame.sent => HandedWhole(udp.frame)

(* The same for the frames during which the upkeep thread called nothing.  *)
C37_UndisturbedFrameWhole ==
    (udp.frame.sent /\ ~udp.frame.disturbed) => HandedWhole(udp.frame)

C37_UndisturbedSeen ==
    /\ udp.frame.sent
    /\ ~udp.frame.disturbed
    /\ Len(udp.frame.handed) > 1

(* The first half of C37 alone: the fragments of a frame that were handed  *)
(* to the socket went to one primary destination.                          *)
C37_OneDestination ==
    udp.frame.sent =>
        \A i, j \in 1..Len(udp.frame.handed) :
            udp.frame.handed[i].dest = udp.frame.handed[j].dest

----------------------------------------------------------------------------
(* stop() against a heartbeat thread that is inside a request. A pass of   *)
(* _heartbeat_worker is two steps here: the while-test with the request    *)
(* going out and being served, and the return of requests.post with what   *)
(* the pass does after it. stop() sets running, joins the thread for at    *)
(* most 0.2 s and goes on whether the thread ended or not.                 *)
NoRequest == [kind |-> "none"]

(* What the client reads of an answer. *)
Response(r) == [k \in DOMAIN r \ {"reg", "cache", "counters"} |-> r[k]]

(* The rest of a pass once requests.post returned: the heartbeat branch    *)
(* or the reconnection branch of _heartbeat_worker.                        *)
worker_receive(cl) ==
    LET f == cl.inflight
        base == [cl EXCEPT !.inflight = NoRequest]
    IN  IF f.kind = "heartbeat"
        THEN count_heartbeat(send_heartbeat_result(base, f.outcome, f.r),
                             send_heartbeat_succeeded(f.outcome))
        ELSE reconnect_result(base, f.outcome = "ok", f.r)

(* The thread ends at the next while-test that finds running false. *)
worker_test(cl) == IF cl.running THEN cl ELSE [cl EXCEPT !.worker = FALSE]

HeartbeatThreadSend(c, outcomes) ==
    LET cl == clients[c]
    IN  /\ cl.running /\ cl.worker
        /\ cl.inflight = NoRequest
        /\ IF cl.connection_state = "reconnecting"
           THEN \E o \in outcomes :
                   /\ Served(o) => CanConnect(cl.node_name)
                   /\ IF Served(o) THEN ServeConnectPacket(connect_payload(cl))
                      ELSE UNCHANGED registryVars
                   /\ clients' = [clients EXCEPT ![c].inflight =
                         [kind |-> "connect", outcome |-> o,
                          r |-> Response(ConnectPacketAnswer(connect_payload(cl)))]]
           ELSE IF cl.node_id = NoId
           THEN /\ clients' = [clients EXCEPT ![c] = count_heartbeat(cl, FALSE)]
                /\ UNCHANGED registryVars
           ELSE \E o \in outcomes :
                   /\ IF Served(o) THEN ServeHeartbeat(cl.node_id)
                      ELSE UNCHANGED registryVars
                   /\ clients' = [clients EXCEPT ![c].inflight =
                         [kind |-> "heartbeat", outcome |-> o,
                          r |-> Response(HeartbeatAnswer(cl.node_id))]]
        /\ UNCHANGED <<sweepWake, restarts, histVars, readerVars, procVars>>

HeartbeatThreadReceive(c) ==
    /\ clients[c].worker
    /\ clients[c].inflight # NoRequest
    /\ clients' = [clients EXCEPT ![c] = worker_test(worker_receive(@))]
    /\ UNCHANGED <<sweepWake, registryVars, restarts, histVars, readerVars, procVars>>

(* stop(). `joined` is whether the thread ended within join(timeout=0.2):  *)
(* a thread between two passes always does, one inside a request may not.  *)
StopCall(c, outcomes, joined) ==
    LET unset == [clients[c] EXCEPT !.running = FALSE]
        cl == IF joined
              THEN [(IF unset.inflight # NoRequest THEN worker_receive(unset) ELSE unset)
                       EXCEPT !.worker = FALSE]
              ELSE unset
        connected == cl.connection_state = "connected" /\ cl.node_id # NoId
        returned == [cl EXCEPT !.owner = "stopped",
                               !.stopped_id = IF connected THEN cl.node_id ELSE NoId]
    IN  /\ clients[c].owner = "started"
        /\ clients[c].running
        /\ ~joined => clients[c].inflight # NoRequest
        /\ IF connected
           THEN \E o \in outcomes :
                   /\ IF Served(o) THEN ServeDisconnect(cl.node_id)
                      ELSE UNCHANGED registryVars
                   /\ clients' = [clients EXCEPT ![c] = disconnect_result(returned, o)]
           ELSE /\ clients' = [clients EXCEPT ![c] = returned]
                /\ UNCHANGED registryVars
        /\ UNCHANGED <<sweepWake, restarts, histVars, readerVars, procVars>>

NextStop ==
    \/ Start(1, TwoOutcomes)
    \/ HeartbeatThreadSend(1, TwoOutcomes)
    \/ HeartbeatThreadReceive(1)
    \/ \E joined \in BOOLEAN : StopCall(1, TwoOutcomes, joined)
    \/ Sweep
    \/ Tick

SpecStop == Init /\ [][NextStop]_vars

(* After stop() returned: no new request, no change to connected. *)
StoppedQuiet ==
    clients[1].owner = "stopped" =>
        /\ clients'[1].inflight \in {NoRequest, clients[1].inflight}
        /\ clients'[1].connection_state = "connected"
              => clients[1].connection_state = "connected"

(* The node stop() found connected is dead with reason 'disconnected'. *)
StoppedNodeDead ==
    (clients[1].owner = "stopped" /\ clients[1].stopped_id # NoId) =>
        LET n == Lookup(node_registry, clients[1].stopped_id)
        IN  n.life_status.status = "dead" /\ n.life_status.reason = "disconnected"

(* C38: once stop() has returned the client sends no Connect or Heartbeat, *)
(* its connection_state does not become connected again, and the node it   *)
(* was connected as is dead with reason 'disconnected' in the registry.    *)
C38_StoppedClientStaysStopped == []StoppedNodeDead /\ [][StoppedQuiet]_vars

(* The part of C38 about the client alone. *)
C38_StoppedClientQuiet == [][StoppedQuiet]_vars

(* The same when the heartbeat thread ended within stop()'s join. *)
C38_QuietWhenJoined ==
    [][(clients[1].owner = "stopped" /\ ~clients[1].worker) =>
          /\ clients'[1].inflight = NoRequest
          /\ clients'[1].connection_state = "connected"
                => clients[1].connection_state = "connected"]_vars

C38_JoinedSeen ==
    /\ clients[1].owner = "stopped"
    /\ ~clients[1].worker
    /\ clients[1].connection_state = "disconnected"
    /\ clients[1].stopped_id # NoId

----------------------------------------------------------------------------
(* A connected JSONRemoteConnector whose peer closes the connection. The   *)
(* worker's loop is followed pass by pass: the sendall of one queued value *)
(* and the recv. After the peer's close recv returns b'' at once; a write  *)
(* to the closed peer is accepted and answered by a reset, after which     *)
(* every socket call raises.                                               *)
MaxPeerSends == 3

InitPeer == InitTcp

(* send_data as one call. *)
SendData(data) ==
    /\ Len(tcp.wire_out) + Len(tcp.outgoing_queue) + tcp.dropped < MaxPeerSends
    /\ tcp' = IF tcp.connected
              THEN [tcp EXCEPT !.outgoing_queue = Append(@, [data |-> data,
                                                             epoch |-> tcp.reconnects])]
              ELSE [tcp EXCEPT !.dropped = @ + 1]
    /\ tcpUnchanged

PeerClose ==
    /\ tcp.peer = "open"
    /\ tcp' = [tcp EXCEPT !.peer = "closed"]
    /\ tcpUnchanged

(* One pass of _worker_loop (lines 84-120), or the pass that ends it       *)
(* (lines 122-125). `if data:` has no else: an empty recv changes nothing. *)
WorkerPass ==
    /\ tcp.running /\ tcp.worker_thread = "alive"
    /\ tcp' = IF tcp.peer = "reset"
              THEN [tcp EXCEPT !.outgoing_queue = IF @ # <<>> THEN Tail(@) ELSE @,
                               !.connected = FALSE, !.worker_thread = "ended"]
              ELSE IF tcp.outgoing_queue # <<>>
              THEN [tcp EXCEPT
                      !.outgoing_queue = Tail(@),
                      !.wire_out = Append(@, [to |-> tcp.host,
                                              data |-> Head(tcp.outgoing_queue).data,
                                              epoch |-> Head(tcp.outgoing_queue).epoch]),
                      !.peer = IF @ = "closed" THEN "reset" ELSE @]
              ELSE tcp
    /\ tcpUnchanged

NextPeer ==
    \/ \E data \in StreamMessages : SendData(data)
    \/ PeerClose
    \/ WorkerPass
    \/ WorkerError

(* The worker thread keeps running while it is alive. *)
SpecPeer == InitPeer /\ [][NextPeer]_vars /\ WF_vars(WorkerPass)

(* send_data queues nothing once connected is false. *)
DroppedWhenDisconnected ==
    [][~tcp.connected => tcp'.outgoing_queue = tcp.outgoing_queue]_vars

(* C39: after the peer closed the connection, or after the worker ended on *)
(* an exception, is_connected() becomes false, and send_data calls made    *)
(* once it is false queue nothing.                                         *)
C39_LostConnectionNoticed ==
    /\ (tcp.peer # "open" \/ tcp.worker_thread = "ended") ~> ~tcp.connected
    /\ DroppedWhenDisconnected

(* The part of C39 about a worker that ended on an exception. *)
C39_WorkerErrorNoticed ==
    /\ [](tcp.worker_thread = "ended" => ~tcp.connected)
    /\ DroppedWhenDisconnected

(* A closed peer is noticed once a value was written to it. *)
C39_NoticedAfterWrite == (tcp.peer = "reset") ~> ~tcp.connected

C39_DroppedSeen ==
    /\ tcp.worker_thread = "ended"
    /\ tcp.peer = "reset"
    /\ tcp.dropped > 0

----------------------------------------------------------------------------
(* The discovery cache of the NodeClient under SpecComms: the registry's   *)
(* remote_data goes from a dict back to None and heartbeats are answered   *)
(* without 'remote_ports'.                                                 *)

(* C40: the keys of the client's discovery cache never go away, so once    *)
(* get_remote_discovery has returned a non-empty record to an upkeep pass  *)
(* every later pass gets a non-empty one and none takes the                *)
(* disconnect_on_empty branch.                                             *)
C40_DiscoveryCacheOnlyGrows ==
    [][/\ DOMAIN clients[1].remote_discovery_cache
             \subseteq DOMAIN clients'[1].remote_discovery_cache
       /\ DOMAIN comms.seen # {}
             => (DOMAIN comms'.seen # {} /\ ~comms'.emptied)]_vars

(* An upkeep pass that got a non-empty record while the registry's         *)
(* remote_data was None and the client's heartbeats were answered.         *)
C40_Witness ==
    /\ remote_data = PyNone
    /\ comms.unannounced
    /\ DOMAIN comms.seen # {}
    /\ ~comms.emptied
    /\ clients[1].connection_state = "connected"
    /\ clients[1].last_heartbeat_success

====
